---- MODULE Spec2Model ----
(***************************************************************************)
(* A model of sk-watch-bot: the SQLite store (src/storage/db.py), the      *)
(* check scheduler (src/watcher/scheduler.py) and the authentication       *)
(* manager (src/auth/flow.py).                                             *)
(*                                                                         *)
(* The module holds several specifications over one set of variables:      *)
(*   SpecStore  the operator's toggles of categories and watches           *)
(*   SpecCheck  category checks, diagnostics, findings                     *)
(*   SpecQueue  the priority queue, the periodic timer and the worker      *)
(*   SpecAuth   ensure_auth and the operator hooks                         *)
(*   SpecLogin  ensure_auth step by step, two callers, the three waits     *)
(*   SpecRun    the runner's jobs step by step, notifications, stop        *)
(* A specification leaves the variables of the other parts unchanged.      *)
(***************************************************************************)
EXTENDS Integers, Sequences, FiniteSets, TLC

VARIABLES
    categories,   \* table categories: key -> row
    watches,      \* table watches: id -> row
    settings,     \* table settings: key -> <<>> (no row) or <<value>>
    findings,     \* table findings, in id order
    diagnostics,  \* table diagnostics, in id order
    runs,         \* table runs, in id order
    clock,        \* datetime.utcnow(), a counter that only grows
    login_url,    \* os.getenv("LOGIN_URL", ""): "" or the portal's address
    owner_id,     \* int(os.getenv("OWNER_ID", "0")): 0 or the operator's chat id
    context,      \* AuthManager._context: TRUE once the browser context is launched
    toggled,      \* history: the last category round trip, per category
    last_check,   \* history: what the last category check did
    queue,        \* WatcherScheduler._queue: the heap of the PriorityQueue
    running,      \* WatcherScheduler._running
    task,         \* WatcherScheduler._task: the runner's position and its job
    periodic_task,\* WatcherScheduler._periodic_task: "none", "sleep" or "done"
    lock,         \* WatcherScheduler._lock: TRUE while it is held
    active,       \* history: the jobs whose processing has begun and not ended
    taken,        \* history: the jobs in the order the runner took them
    created,      \* the number of jobs made so far: the created_at of the next one
    sms_future,   \* AuthManager._sms_future: its state and its result
    sms_prompt,   \* the login that waits in _prompt_sms_code, if one does
    last_auth,    \* history: what the last ensure_auth call did
    sms_input,    \* history: the last operator input while a code was awaited
    captcha_provider, \* os.getenv("CAPTCHA_PROVIDER", "auto").lower()
    captcha_key,  \* whether CAPTCHA_API_KEY is set
    auth_lock,    \* AuthManager._lock: "none" or the caller that holds it
    calls,        \* the ensure_auth call of each caller: its position and its arguments
    captcha_future, \* AuthManager._captcha_future: its state and its result
    manual_future,  \* AuthManager._manual_future: its state and its result
    last_return,  \* history: how the last ensure_auth call of SpecLogin ended
    run,          \* the job the runner processes in SpecRun: its position and counts
    delivered,    \* history: the findings whose send_message call returned
    resent,       \* history: the findings send_message returned for more than once
    watch_rows,   \* table watches, the key columns of its rows in rowid order
    pages,        \* the pages opened outside ensure_auth: the position of each operation
    toggle_calls  \* the set_category_enabled call of each thread: its position

storeVars == <<categories, watches, settings, findings, diagnostics, runs, clock>>

configVars == <<login_url, owner_id>>

schedVars == <<queue, running, task, periodic_task, lock, active, taken, created>>

authVars == <<sms_future, sms_prompt, last_auth, sms_input>>

loginVars ==
    <<captcha_provider, captcha_key, auth_lock, calls, captcha_future, manual_future,
      last_return>>

runVars == <<run, delivered, resent>>

auxVars == <<watch_rows, pages, toggle_calls>>

vars ==
    <<categories, watches, settings, findings, diagnostics, runs, clock,
      login_url, owner_id, context, toggled, last_check, runVars, schedVars,
      authVars, loginVars, auxVars>>

(***************************************************************************)
(* Values                                                                  *)
(***************************************************************************)

\* Python's None / SQL NULL in a text column.
NULL == "NULL"

\* Two of DEFAULT_CATEGORIES, in seeding order.
CategoryKeys == <<"PRECHODNY", "TRVALY_5Y">>

\* Two of DEFAULT_CITIES, in seeding order (ord = position).
CityKeys == <<"kosice", "nitra">>

Categories == {CategoryKeys[i] : i \in DOMAIN CategoryKeys}

Cities == {CityKeys[i] : i \in DOMAIN CityKeys}

\* The position of a key in a sequence of distinct keys.
IndexOf(seq, key) == CHOOSE i \in DOMAIN seq : seq[i] = key

\* The rowid _seed gives the watch of a (category, city) pair: categories in
\* the outer loop, cities in the inner one, AUTOINCREMENT-like ids from 1.
WatchId(cat, city) ==
    (IndexOf(CategoryKeys, cat) - 1) * Len(CityKeys) + IndexOf(CityKeys, city)

WatchIds == {WatchId(c, k) : c \in Categories, k \in Cities}

\* The keys of the settings table the modelled code uses.
SnapshotKey(cat) == <<"category_snapshot", cat>>

ManualOffKey(id) == <<"watch_manual_off", ToString(id)>>

SettingsKeys ==
    {SnapshotKey(c) : c \in Categories}
        \cup {ManualOffKey(id) : id \in WatchIds}
        \cup {<<"auth_state", "">>, <<"auth_exp", "">>, <<"auth_sms_pending", "">>}

(***************************************************************************)
(* storage/db.py                                                           *)
(***************************************************************************)

\* _seed: every category and every watch is created disabled and PAUSED.
seed_categories ==
    [c \in Categories |->
        [enabled |-> FALSE, status |-> "PAUSED", last_check_at |-> 0,
         last_error |-> NULL]]

seed_watches ==
    [id \in WatchIds |->
        LET c == CHOOSE c \in Categories : \E k \in Cities : WatchId(c, k) = id
            k == CHOOSE k \in Cities : WatchId(c, k) = id
        IN [category_key |-> c, city_key |-> k, enabled |-> FALSE,
            status |-> "PAUSED", last_seen_value |-> NULL, last_seen_at |-> 0,
            last_check_at |-> 0, error_msg |-> NULL]]

\* The key columns of a row of watches.
watch_row(cat, city) == [category_key |-> cat, city_key |-> city]

\* Mutant of insert_or_ignore: the row is inserted whatever the table holds.
insert_always(rows, row) == Append(rows, row)

\* INSERT OR IGNORE INTO watches under UNIQUE(category_id, city_id): the row
\* gets the next rowid unless the table has a row of the pair.
insert_or_ignore(rows, row) ==
    IF \E i \in DOMAIN rows : rows[i] = row THEN rows ELSE Append(rows, row)

\* _seed, lines 221 to 231: the loop over the categories and the cities, from
\* the j-th city of the i-th category on.
RECURSIVE seed_rows(_, _, _)
seed_rows(rows, i, j) ==
    IF i > Len(CategoryKeys) THEN rows
    ELSE IF j > Len(CityKeys) THEN seed_rows(rows, i + 1, 1)
    ELSE seed_rows(insert_or_ignore(rows, watch_row(CategoryKeys[i], CityKeys[j])), i, j + 1)

\* settings_get: the value of the row, or None.
settings_get(s, key) == IF s[key] = <<>> THEN NULL ELSE s[key][1]

\* settings_set: insert or update the row.
settings_set(s, key, value) == [s EXCEPT ![key] = <<value>>]

\* settings_delete: drop the row.
settings_delete(s, key) == [s EXCEPT ![key] = <<>>]

\* get_watches_by_category: the ids of the category's watches, ORDER BY c.ord.
get_watches_by_category(cat) == [i \in DOMAIN CityKeys |-> WatchId(cat, CityKeys[i])]

\* The enabled ones among a list of watch ids, in order.
SelectIds(ids, ws) == SelectSeq(ids, LAMBDA id : ws[id].enabled)

\* ",".join(str(id) ...): the snapshot string of a list of ids.
RECURSIVE join_ids(_)
join_ids(ids) ==
    IF ids = <<>> THEN ""
    ELSE IF Len(ids) = 1 THEN ToString(ids[1])
    ELSE ToString(ids[1]) \o "," \o join_ids(Tail(ids))

\* The ids of a set in ascending order.
RECURSIVE Ascending(_)
Ascending(ids) ==
    IF ids = {} THEN <<>>
    ELSE LET least == CHOOSE i \in ids : \A j \in ids : i <= j
         IN <<least>> \o Ascending(ids \ {least})

\* [int(part) for part in snapshot.split(",") if part]: the ids a snapshot
\* string lists, found as the set of ids whose list is written that way.
parse_snapshot(snapshot) ==
    CHOOSE ids \in SUBSET WatchIds : join_ids(Ascending(ids)) = snapshot

\* Mutant of snapshot_ids: the filter on w["enabled"] is lost.
snapshot_ids_all(ws, cat) == get_watches_by_category(cat)

\* set_category_enabled, disabling: enabled_ids, the ids of the enabled watches
\* of the category in the order of get_watches_by_category.
snapshot_ids(ws, cat) == SelectIds(get_watches_by_category(cat), ws)

\* Mutant of set_category_enabled_store: the enable restores the watches of
\* the snapshot and leaves the snapshot in the settings.
set_category_enabled_keeps_snapshot(cats, ws, s, key, on) ==
    LET cats1 == [cats EXCEPT ![key].enabled = on]
        snapshot == settings_get(s, SnapshotKey(key))
    IN IF on
       THEN [categories |-> cats1,
             watches |-> [id \in WatchIds |->
                 IF snapshot # NULL /\ snapshot # "" /\ id \in parse_snapshot(snapshot)
                 THEN [ws[id] EXCEPT !.enabled = TRUE] ELSE ws[id]],
             settings |-> s]
       ELSE [categories |-> cats1,
             watches |-> [id \in WatchIds |->
                 IF ws[id].category_key = key
                 THEN [ws[id] EXCEPT !.enabled = FALSE] ELSE ws[id]],
             settings |-> IF snapshot_ids(ws, key) # <<>>
                          THEN settings_set(s, SnapshotKey(key), join_ids(snapshot_ids(ws, key)))
                          ELSE s]

\* set_category_enabled: the tables after the call.
set_category_enabled_store(cats, ws, s, key, on) ==
    LET cats1 == [cats EXCEPT ![key].enabled = on]
        snapshot == settings_get(s, SnapshotKey(key))
    IN IF on
       THEN IF snapshot # NULL /\ snapshot # ""
            THEN [categories |-> cats1,
                  watches |-> [id \in WatchIds |->
                      IF id \in parse_snapshot(snapshot)
                      THEN [ws[id] EXCEPT !.enabled = TRUE] ELSE ws[id]],
                  settings |-> settings_delete(s, SnapshotKey(key))]
            ELSE [categories |-> cats1, watches |-> ws, settings |-> s]
       ELSE LET enabled_ids == snapshot_ids(ws, key)
            IN [categories |-> cats1,
                watches |-> [id \in WatchIds |->
                    IF ws[id].category_key = key
                    THEN [ws[id] EXCEPT !.enabled = FALSE] ELSE ws[id]],
                settings |-> IF enabled_ids # <<>>
                             THEN settings_set(s, SnapshotKey(key), join_ids(enabled_ids))
                             ELSE s]

\* The watches of a category that are enabled.
EnabledSet(ws, cat) == {id \in WatchIds : ws[id].category_key = cat /\ ws[id].enabled}

\* History of the round trips: "none", or after a disable of an enabled
\* category "off" with the set S enabled before it, or after the enable that
\* follows it directly "back" with the same S.
NoTrip == [phase |-> "none", S |-> {}]

toggled_after_category(cat, on) ==
    IF ~on /\ categories[cat].enabled
    THEN [toggled EXCEPT ![cat] = [phase |-> "off", S |-> EnabledSet(watches, cat)]]
    ELSE IF on /\ toggled[cat].phase = "off"
    THEN [toggled EXCEPT ![cat].phase = "back"]
    ELSE [toggled EXCEPT ![cat] = NoTrip]

\* set_category_enabled(key, on), as the operator's toggle or any other caller
\* invokes it.
set_category_enabled(key, on) ==
    LET after == set_category_enabled_store(categories, watches, settings, key, on)
    IN /\ categories' = after.categories
       /\ watches' = after.watches
       /\ settings' = after.settings
       /\ toggled' = toggled_after_category(key, on)
       /\ UNCHANGED <<findings, diagnostics, runs, clock, configVars, auxVars, loginVars, runVars, context, last_check>>
       /\ UNCHANGED <<schedVars, authVars>>

\* enable_watch(cat_key, city_key, on).
enable_watch(cat, city, on) ==
    LET id == WatchId(cat, city)
    IN /\ watches' = [watches EXCEPT ![id].enabled = on]
       /\ settings' = IF on THEN settings_delete(settings, ManualOffKey(id))
                      ELSE settings_set(settings, ManualOffKey(id), "1")
       /\ toggled' = [toggled EXCEPT ![cat] = NoTrip]
       /\ UNCHANGED <<categories, findings, diagnostics, runs, clock>>
       /\ UNCHANGED <<configVars, auxVars, loginVars, runVars, context, last_check, schedVars, authVars>>

\* enable_all_watches(cat_key, on).
enable_all_watches(cat, on) ==
    /\ watches' = [id \in WatchIds |->
           IF watches[id].category_key = cat
           THEN [watches[id] EXCEPT !.enabled = on] ELSE watches[id]]
    /\ settings' =
           IF on
           THEN [key \in SettingsKeys |->
                    IF key = SnapshotKey(cat)
                       \/ \E k \in Cities : key = ManualOffKey(WatchId(cat, k))
                    THEN <<>> ELSE settings[key]]
           ELSE settings
    /\ toggled' = [toggled EXCEPT ![cat] = NoTrip]
    /\ UNCHANGED <<categories, findings, diagnostics, runs, clock>>
    /\ UNCHANGED <<configVars, auxVars, loginVars, runVars, context, last_check, schedVars, authVars>>

\* datetime.isoformat() of a clock value, and datetime.fromisoformat back.
\* Horizon is past every clock value the model reaches.
Horizon == 64

isoformat(t) == "T" \o ToString(t)

fromisoformat(text) == CHOOSE t \in 0..Horizon : isoformat(t) = text

AuthStateKey == <<"auth_state", "">>

AuthExpKey == <<"auth_exp", "">>

SmsPendingKey == <<"auth_sms_pending", "">>

\* set_category_status: status, last_check_at and last_error of one category.
set_category_status(cats, key, status, now, last_error) ==
    [cats EXCEPT ![key] = [@ EXCEPT !.status = status, !.last_check_at = now,
                                    !.last_error = last_error]]

\* Mutant of update_watch_result: None clears the last seen value.
update_watch_result_clearing(ws, id, status, last_seen_value, last_seen_at, error_msg, now) ==
    [ws EXCEPT ![id] =
        [@ EXCEPT !.status = status,
                  !.last_seen_value = last_seen_value,
                  !.last_seen_at = IF last_seen_at # 0 THEN last_seen_at ELSE @,
                  !.error_msg = IF error_msg # NULL THEN error_msg ELSE @,
                  !.last_check_at = now]]

\* update_watch_result: the status always, the other columns only when the
\* argument is not None; last_check_at is utcnow.
update_watch_result(ws, id, status, last_seen_value, last_seen_at, error_msg, now) ==
    [ws EXCEPT ![id] =
        [@ EXCEPT !.status = status,
                  !.last_seen_value = IF last_seen_value # NULL THEN last_seen_value ELSE @,
                  !.last_seen_at = IF last_seen_at # 0 THEN last_seen_at ELSE @,
                  !.error_msg = IF error_msg # NULL THEN error_msg ELSE @,
                  !.last_check_at = now]]

\* Mutant of reset_watches_for_category: the last seen value is reset too.
reset_watches_and_values(ws, cat, status, error, now) ==
    [id \in WatchIds |->
        IF ws[id].category_key = cat
        THEN [ws[id] EXCEPT !.status = status, !.error_msg = error, !.last_check_at = now,
                            !.last_seen_value = NULL]
        ELSE ws[id]]

\* Mutant of reset_watches_for_category: the error column is not written.
reset_watches_keep_error(ws, cat, status, error, now) ==
    [id \in WatchIds |->
        IF ws[id].category_key = cat
        THEN [ws[id] EXCEPT !.status = status, !.last_check_at = now]
        ELSE ws[id]]

\* reset_watches_for_category: status, error_msg and last_check_at of every
\* watch of the category.
reset_watches_for_category(ws, cat, status, error, now) ==
    [id \in WatchIds |->
        IF ws[id].category_key = cat
        THEN [ws[id] EXCEPT !.status = status, !.error_msg = error, !.last_check_at = now]
        ELSE ws[id]]

\* Mutant of last_finding: ORDER BY found_at DESC is lost, the oldest row comes first.
first_finding(fs, watch_id) ==
    LET mine == {i \in DOMAIN fs : fs[i].watch_id = watch_id}
    IN IF mine = {} THEN <<>>
       ELSE <<fs[CHOOSE i \in mine : \A j \in mine : i <= j]>>

\* record_finding, the SELECT: the finding of the watch with the greatest
\* found_at (of equal ones the first in rowid order), <<>> when it has none.
last_finding(fs, watch_id) ==
    LET mine == {i \in DOMAIN fs : fs[i].watch_id = watch_id}
    IN IF mine = {} THEN <<>>
       ELSE <<fs[CHOOSE i \in mine : \A j \in mine :
                    \/ fs[j].found_at < fs[i].found_at
                    \/ fs[j].found_at = fs[i].found_at /\ i <= j]>>

\* record_finding: [findings |-> the table after the call, id |-> lastrowid or 0 for None].
record_finding(fs, watch_id, value, when) ==
    LET last == last_finding(fs, watch_id)
    IN IF last # <<>> /\ last[1].found_value = value
       THEN [findings |-> fs, id |-> 0]
       ELSE [findings |-> Append(fs, [watch_id |-> watch_id, found_value |-> value,
                                       found_at |-> when, notified_at |-> 0]),
             id |-> Len(fs) + 1]

\* get_pending_findings: the ids of the findings not notified, ORDER BY found_at
\* (rowid order among equal ones).
RECURSIVE SortByFoundAt(_, _)
SortByFoundAt(fs, ids) ==
    IF ids = {} THEN <<>>
    ELSE LET first == CHOOSE i \in ids : \A j \in ids :
                          \/ fs[i].found_at < fs[j].found_at
                          \/ fs[i].found_at = fs[j].found_at /\ i <= j
         IN <<first>> \o SortByFoundAt(fs, ids \ {first})

\* Mutant of get_pending_findings: WHERE notified_at IS NULL is lost.
get_all_findings(fs) == SortByFoundAt(fs, DOMAIN fs)

get_pending_findings(fs) ==
    SortByFoundAt(fs, {i \in DOMAIN fs : fs[i].notified_at = 0})

\* mark_finding_notified.
mark_finding_notified(fs, id, now) == [fs EXCEPT ![id].notified_at = now]

\* Mutant of get_last_diagnostic: ORDER BY ... DESC is lost, the oldest row comes first.
get_first_diagnostic(ds, cat, city) ==
    LET mine == {i \in DOMAIN ds : ds[i].category_code = cat /\ ds[i].city_key = city}
    IN IF mine = {} THEN <<>>
       ELSE <<ds[CHOOSE i \in mine : \A j \in mine : i <= j]>>

\* get_last_diagnostic: the row of the pair first in ORDER BY recorded_at DESC,
\* id DESC; <<>> for None.
get_last_diagnostic(ds, cat, city) ==
    LET mine == {i \in DOMAIN ds : ds[i].category_code = cat /\ ds[i].city_key = city}
    IN IF mine = {} THEN <<>>
       ELSE <<ds[CHOOSE i \in mine : \A j \in mine :
                    \/ ds[j].recorded_at < ds[i].recorded_at
                    \/ ds[j].recorded_at = ds[i].recorded_at /\ j <= i]>>

\* record_diagnostic: append the row.
record_diagnostic(ds, row) == Append(ds, row)

\* create_run: append a run that is not finished.
create_run(rs, now, scope) ==
    Append(rs, [started_at |-> now, finished_at |-> 0, ok |-> 0, errors |-> 0,
                findings |-> 0, scope |-> scope])

\* finish_run.
finish_run(rs, run_id, ok, errors, found, now) ==
    [rs EXCEPT ![run_id] = [@ EXCEPT !.finished_at = now, !.ok = ok,
                                     !.errors = errors, !.findings = found]]

(***************************************************************************)
(* The portal, as the scheduler sees it                                    *)
(***************************************************************************)

PortalUrl == "https://portal.example/login"

\* The module is ASCII: "cyr:Koshitse" and "cyr:Nitra" stand for the Cyrillic
\* titles DEFAULT_CITIES gives kosice and nitra, "Kosice" and "Nitra" for the
\* Slovak names of the cities (the first with a caron on the s).
city_title(city) == IF city = "kosice" THEN "cyr:Koshitse" ELSE "cyr:Nitra"

PortalNames == {"Kosice", "cyr:Koshitse", "cyr:Nitra"}

\* _slugify_city: NFKD without the combining marks, "OCP" removed, stripped,
\* lower case, blanks and "/" and "-" to "_". It keeps the script of the name.
slugify_city(name) ==
    CASE name = "Kosice" -> "kosice"
      [] name = "Nitra" -> "nitra"
      [] name = "cyr:Koshitse" -> "cyr:koshitse"
      [] name = "cyr:Nitra" -> "cyr:nitra"

\* The dates a label can carry, and _parse_city_rows' ISO form of each.
PortalDates == {"14.3.2025", "2.4.2025"}

iso_date(date) == IF date = "14.3.2025" THEN "2025-03-14" ELSE "2025-04-02"

\* The text of a label of the page: "OCP <name>" or "OCP <name> - <date>".
label_text(name, date) ==
    IF date = NULL THEN "OCP " \o name ELSE "OCP " \o name \o " - " \o date

\* _parse_city_rows, one label: the regular expression's groups, the date in
\* ISO form, and the stripped text.
parse_label(text) ==
    LET n == CHOOSE n \in PortalNames : \E d \in PortalDates \cup {NULL} : label_text(n, d) = text
        d == CHOOSE d \in PortalDates \cup {NULL} : label_text(n, d) = text
    IN [name |-> n, iso_value |-> IF d = NULL THEN NULL ELSE iso_date(d), text |-> text]

\* The labels of the page: an office the seeds do not know under that name,
\* an office with either date or none, an office with a date.
PortalLabels ==
    {label_text("Kosice", "14.3.2025"), label_text("cyr:Nitra", "14.3.2025")}
        \cup {label_text("cyr:Koshitse", d) : d \in PortalDates \cup {NULL}}

\* The order in which the page lists its offices.
PortalOrder == <<"Kosice", "cyr:Koshitse", "cyr:Nitra">>

\* The number of labels of a page.
MaxRows == 2

\* A page: each office at most once, in the page's order.
Pages ==
    {p \in UNION {[1..n -> PortalLabels] : n \in 0..MaxRows} :
        \A i, j \in DOMAIN p :
            i < j => IndexOf(PortalOrder, parse_label(p[i]).name)
                         < IndexOf(PortalOrder, parse_label(p[j]).name)}

\* _parse_city_rows: the entries of a page.
parse_city_rows(page) == [i \in DOMAIN page |-> parse_label(page[i])]

\* reverse_slug.get(slug): the city whose title has that slug, or None.
reverse_slug_get(slug) ==
    IF \E k \in Cities : slugify_city(city_title(k)) = slug
    THEN CHOOSE k \in Cities : slugify_city(city_title(k)) = slug
    ELSE NULL

\* The entries that name a city; the last one is what updates and raw_map keep.
entries_of(entries, city) ==
    {i \in DOMAIN entries : reverse_slug_get(slugify_city(entries[i].name)) = city}

LastOf(indices) == CHOOSE i \in indices : \A j \in indices : j <= i

\* updates.get(city_key, ("NO_DATE", None)) after the loop over the entries.
updates_get(entries, city) ==
    LET mine == entries_of(entries, city)
    IN IF mine = {} THEN [status |-> "NO_DATE", date_str |-> NULL]
       ELSE [status |-> IF entries[LastOf(mine)].iso_value # NULL THEN "OK" ELSE "NO_DATE",
             date_str |-> entries[LastOf(mine)].iso_value]

\* raw_map.get(city_key, "") after the loop over the entries.
raw_map_get(entries, city) ==
    LET mine == entries_of(entries, city)
    IN IF mine = {} THEN "" ELSE entries[LastOf(mine)].text

\* hashlib.sha1(text).hexdigest(): one digest per text.
sha1(text) == "sha1(" \o text \o ")"

(***************************************************************************)
(* auth/flow.py: ensure_auth as one call                                   *)
(***************************************************************************)

\* The tables and the browser context, as one value the operations map.
St ==
    [categories |-> categories, watches |-> watches, settings |-> settings,
     findings |-> findings, diagnostics |-> diagnostics, runs |-> runs,
     clock |-> clock, context |-> context]

\* AUTH_VALID_HOURS, the default; the clock counts hours.
auth_valid_hours == 6

\* Mutant of cache_valid: the comparison of the expiry with the time is turned round.
cache_valid_if_expired(s, now) ==
    /\ settings_get(s, AuthStateKey) = "OK"
    /\ settings_get(s, AuthExpKey) # NULL
    /\ settings_get(s, AuthExpKey) # ""
    /\ fromisoformat(settings_get(s, AuthExpKey)) <= now

\* ensure_auth, lines 78 to 85: the cached state is OK and its expiry is in
\* the future.
cache_valid(s, now) ==
    /\ settings_get(s, AuthStateKey) = "OK"
    /\ settings_get(s, AuthExpKey) # NULL
    /\ settings_get(s, AuthExpKey) # ""
    /\ fromisoformat(settings_get(s, AuthExpKey)) > now

\* ensure_auth, lines 93 to 106: the state and the expiry a login result leaves.
after_login(s, result, now) ==
    LET s1 == settings_set(s, AuthStateKey, result)
    IN IF result = "OK"
       THEN settings_set(s1, AuthExpKey, isoformat(now + auth_valid_hours))
       ELSE settings_set(s1, AuthExpKey, "")

\* Mutant of may_use_cache: force is not looked at.
may_use_cache_forced(force, s, now) == cache_valid(s, now)

\* ensure_auth, line 77 with lines 78 to 85: the preflight is tried.
may_use_cache(force, s, now) == ~force /\ cache_valid(s, now)

\* ensure_auth(bot, force=force), run to its return, for a login that needs no
\* word from the operator. env: whether the browser launches (launch), what
\* a preflight returns, what a login returns. path: which return statement
\* was taken; steps: which of _preflight and _perform_login ran, in order.
ensure_auth_call(st, url, force, env) ==
    IF url = ""
    THEN [st |-> st, state |-> "ERROR", path |-> "no_url", steps |-> <<>>]
    ELSE IF ~st.context /\ ~env.launch
    THEN [st |-> st, state |-> "ERROR", path |-> "no_context", steps |-> <<>>]
    ELSE IF may_use_cache(force, st.settings, st.clock) /\ env.preflight = "OK"
    THEN [st |-> [st EXCEPT !.context = TRUE,
                            !.settings = settings_set(@, AuthStateKey, "OK")],
          state |-> "OK", path |-> "preflight", steps |-> <<"preflight">>]
    ELSE [st |-> [st EXCEPT !.context = TRUE,
                            !.settings = after_login(settings_set(@, SmsPendingKey, "0"),
                                                     env.login, st.clock)],
          state |-> env.login, path |-> "login",
          steps |-> IF may_use_cache(force, st.settings, st.clock)
                    THEN <<"preflight", "login">> ELSE <<"login">>]

(***************************************************************************)
(* auth/flow.py: the SMS code                                              *)
(***************************************************************************)

Digits == {"0", "1", "2", "3", "4", "5", "6", "7", "8", "9"}

\* re.fullmatch(r"\d{6}", text).
six_digits(text) == Len(text) = 6 /\ \A i \in DOMAIN text : text[i] \in Digits

\* _prompt_sms_code: attempts.
sms_attempts == 3

\* What the operator may send: a code, and a code with a letter in it.
OperatorTexts == {<<"1", "2", "3", "4", "5", "6">>, <<"1", "2", "a", "4", "5", "6">>}

\* The record of an ensure_auth call made in the current state.
auth_record(force, env, steps, state) ==
    [n |-> last_auth.n + 1, force |-> force, url |-> login_url,
     had_context |-> context, launch |-> env.launch,
     cached_state |-> settings_get(settings, AuthStateKey),
     cached_exp |-> settings_get(settings, AuthExpKey), at |-> clock,
     preflight |-> env.preflight, steps |-> steps, state |-> state]

(***************************************************************************)
(* watcher/scheduler.py: one category check                                *)
(***************************************************************************)

\* _finalise_run.
finalise_run(rs, run_id, status, found, now) ==
    IF run_id = 0 THEN rs
    ELSE finish_run(rs, run_id, IF status = "OK" THEN 1 ELSE 0,
                    IF status = "OK" THEN 0 ELSE 1, found, now)

\* _process_single_category, lines 192 to 213, for one watch: acc is the
\* tables and the count of new findings so far, u what the page gave for the
\* city, seen the watch's last_seen_value as read before the page was opened.
check_watch(acc, id, u, seen, now) ==
    IF u.status = "OK" /\ u.date_str # NULL /\ seen # u.date_str
    THEN [st |-> [acc.st EXCEPT
                     !.watches = update_watch_result(@, id, u.status, u.date_str,
                                                     now, NULL, now),
                     !.findings = record_finding(@, id, u.date_str, now).findings],
          new_findings |-> acc.new_findings
              + IF record_finding(acc.st.findings, id, u.date_str, now).id # 0
                THEN 1 ELSE 0]
    ELSE [acc EXCEPT
             !.st.watches = update_watch_result(@, id, u.status, u.date_str,
                                IF u.date_str # NULL THEN now ELSE 0, NULL, now)]

\* _process_single_category, lines 191 to 214: the loop over city_map from the
\* i-th city on. snap is the list of watches read before the page was opened,
\* updates gives updates.get(city_key, ("NO_DATE", None)) for each city.
RECURSIVE watch_loop(_, _, _, _, _, _)
watch_loop(acc, cat, updates, snap, now, i) ==
    IF i > Len(CityKeys) THEN acc
    ELSE watch_loop(check_watch(acc, WatchId(cat, CityKeys[i]), updates[CityKeys[i]],
                                snap[WatchId(cat, CityKeys[i])].last_seen_value, now),
                    cat, updates, snap, now, i + 1)

\* _record_diagnostics, the row of one city: previous is get_last_diagnostic's
\* answer, u and anchor_text what updates and raw_map give for the city.
diagnostic_row(previous, cat, city, u, anchor_text, http_status, default_comment, now) ==
    [recorded_at |-> now, category_code |-> cat, city_key |-> city,
     status |-> u.status, http_status |-> http_status,
     content_len |-> Len(anchor_text), anchor_hash |-> sha1(anchor_text),
     diff_len |-> Len(anchor_text)
                      - IF previous = <<>> THEN 0 ELSE previous[1].content_len,
     diff_anchor |-> IF previous = <<>> THEN "new"
                     ELSE IF previous[1].anchor_hash # sha1(anchor_text) THEN "changed"
                     ELSE "same",
     comment |-> IF u.date_str # NULL THEN u.date_str
                 ELSE IF default_comment # "" THEN default_comment
                 ELSE u.status]

\* _record_diagnostics from the i-th city on. updates and raw_map are given as
\* functions of the city; len(anchor_text) is Len of the text.
RECURSIVE record_diagnostics(_, _, _, _, _, _, _, _)
record_diagnostics(ds, cat, updates, raw_map, http_status, default_comment, now, i) ==
    IF i > Len(CityKeys) THEN ds
    ELSE record_diagnostics(
             record_diagnostic(ds,
                 diagnostic_row(get_last_diagnostic(ds, cat, CityKeys[i]), cat, CityKeys[i],
                                updates[CityKeys[i]], raw_map[CityKeys[i]],
                                http_status, default_comment, now)),
             cat, updates, raw_map, http_status, default_comment, now, i + 1)

\* What a check found for no city at all, and what the error paths record.
no_updates == [k \in Cities |-> [status |-> "NO_DATE", date_str |-> NULL]]

error_updates == [k \in Cities |-> [status |-> "ERROR", date_str |-> NULL]]

no_raw_map == [k \in Cities |-> ""]

\* _process_single_category, the two except branches (lines 234 to 273):
\* reason is "timeout" or str(exc).
category_failed(st, cat, run_id, reason, now) ==
    [st EXCEPT
        !.categories = set_category_status(@, cat, "ERROR", now, reason),
        !.watches = reset_watches_for_category(@, cat, "ERROR", reason, now),
        !.diagnostics = record_diagnostics(@, cat, error_updates, no_raw_map, NULL,
                                           reason, now, 1),
        !.runs = finalise_run(@, run_id, "ERROR", 0, now)]

\* _process_single_category, lines 216 to 233: after the loop over the watches.
category_done(looped, cat, run_id, http_status, updates, raw_map, now) ==
    [st |-> [looped.st EXCEPT
                !.categories = set_category_status(@, cat, "OK", now, NULL),
                !.diagnostics = record_diagnostics(@, cat, updates, raw_map,
                                                   http_status, "", now, 1),
                !.settings = settings_set(@, AuthStateKey, "OK"),
                !.runs = finalise_run(@, run_id, "OK", looped.new_findings, now)],
     result |-> "OK", new_findings |-> looped.new_findings, raised |-> FALSE,
     scraped |-> "yes", updates |-> updates]

\* _process_single_category, lines 182 to 233: the entries of the page are
\* matched with the cities, then the watches are updated.
category_scraped(st, cat, run_id, http_status, updates, raw_map, now) ==
    category_done(watch_loop([st |-> st, new_findings |-> 0], cat, updates,
                             st.watches, now, 1),
                  cat, run_id, http_status, updates, raw_map, now)

\* updates.get(city_key, ("NO_DATE", None)) and raw_map.get(city_key, "") of
\* every city, for the labels of a page.
page_updates(labels) == [k \in Cities |-> updates_get(parse_city_rows(labels), k)]

page_raw_map(labels) == [k \in Cities |-> raw_map_get(parse_city_rows(labels), k)]

\* What _process_single_category gives when it did not read the page: the
\* tables, the returned state, whether it raised.
unscraped(st, result, raised, scraped) ==
    [st |-> st, result |-> result, new_findings |-> 0, raised |-> raised,
     scraped |-> scraped, updates |-> no_updates]

\* _process_single_category, lines 148 to 275: st is the tables once the run
\* is created and st.clock the time of the check, state what ensure_auth
\* returned. env.page: new_page raises (kind "new_page_error"), the load or
\* the marker wait times out ("timeout"), another exception is raised
\* ("error", with its text) or the page loads ("loaded", with the status and
\* the labels).
check_in_run(st, state, cat, run_id, env) ==
    IF state # "OK"
    THEN unscraped([st EXCEPT
                       !.categories = set_category_status(@, cat, state, st.clock,
                                                          "auth-state=" \o state),
                       !.watches = reset_watches_for_category(@, cat, state, NULL, st.clock),
                       !.runs = finalise_run(@, run_id, state, 0, st.clock)],
                   state, FALSE, "no")
    ELSE IF env.page.kind = "new_page_error"
    THEN unscraped(st, "RAISED", TRUE, "no")
    ELSE IF env.page.kind = "timeout"
    THEN unscraped(category_failed(st, cat, run_id, "timeout", st.clock),
                   "ERROR", FALSE, "timeout")
    ELSE IF env.page.kind = "error"
    THEN unscraped(category_failed(st, cat, run_id, env.page.text, st.clock),
                   "ERROR", FALSE, "error")
    ELSE category_scraped(st, cat, run_id, env.page.http_status,
                          page_updates(env.page.labels), page_raw_map(env.page.labels),
                          st.clock)

\* _process_single_category, lines 143 to 147: the state ensure_auth returned
\* is stored if it is not OK, and the run is created.
check_started(auth, cat, record_run) ==
    [auth.st EXCEPT
        !.settings = IF auth.state # "OK" THEN settings_set(@, AuthStateKey, auth.state)
                     ELSE @,
        !.runs = IF record_run THEN create_run(@, auth.st.clock, "category:" \o cat)
                 ELSE @]

\* _process_single_category, from line 143 on: auth is what ensure_auth did.
check_after_auth(auth, cat, record_run, env) ==
    check_in_run(check_started(auth, cat, record_run), auth.state, cat,
                 IF record_run THEN Len(auth.st.runs) + 1 ELSE 0, env)

\* _process_single_category(cat_key, reason, record_run), with self._bot set:
\* the tables after it, what it returns, whether it raised.
process_single_category(st0, url, cat, record_run, env) ==
    check_after_auth(ensure_auth_call([st0 EXCEPT !.clock = @ + 1], url, FALSE, env),
                     cat, record_run, env)

\* _send_notifications, the loop from the i-th pending finding on; the
\* fail_at-th send_message raises (0: none does). out is the tables, the
\* count of messages sent and whether a send raised.
RECURSIVE notify_loop(_, _, _, _)
notify_loop(out, pending, fail_at, i) ==
    IF i > Len(pending) THEN out
    ELSE IF i = fail_at THEN [out EXCEPT !.raised = TRUE]
    ELSE notify_loop([out EXCEPT
                         !.st.findings = mark_finding_notified(@, pending[i], out.st.clock),
                         !.sent = @ + 1],
                     pending, fail_at, i + 1)

\* _send_notifications, with self._bot set.
send_notifications(st, owner, fail_at) ==
    IF owner = 0 THEN [st |-> st, sent |-> 0, raised |-> FALSE]
    ELSE notify_loop([st |-> st, sent |-> 0, raised |-> FALSE],
                     get_pending_findings(st.findings), fail_at, 1)

(***************************************************************************)
(* watcher/scheduler.py: the jobs and their queue                          *)
(***************************************************************************)

\* _Job(priority, kind=, category=, reason=); created_at is the count of jobs
\* made before it, plus one.
Job(priority, created_at, kind, category, reason) ==
    [priority |-> priority, created_at |-> created_at, kind |-> kind,
     category |-> category, reason |-> reason]

\* The runner's task holds no job.
NoJob == Job(0, 0, "none", NULL, "none")

\* Mutant of job_lt: the order of the priorities is turned round.
job_gt(a, b) == a.priority > b.priority

\* _Job.__lt__ as dataclass(order=True) makes it: of the fields only priority
\* has compare=True.
job_lt(a, b) == a.priority < b.priority

\* The heap of asyncio.PriorityQueue is a list kept by heapq; positions here
\* count from 1, so the parent of pos is pos \div 2 and its children are
\* 2 * pos and 2 * pos + 1.
\* heapq._siftdown(heap, startpos, pos) with newitem taken out of heap[pos].
RECURSIVE siftdown(_, _, _, _)
siftdown(heap, newitem, startpos, pos) ==
    IF pos > startpos /\ job_lt(newitem, heap[pos \div 2])
    THEN siftdown([heap EXCEPT ![pos] = heap[pos \div 2]], newitem, startpos, pos \div 2)
    ELSE [heap EXCEPT ![pos] = newitem]

\* heapq._siftup(heap, pos) with newitem taken out of heap[pos]: the smaller
\* child moves up until a leaf is reached, then newitem is sifted down into place.
RECURSIVE siftup(_, _, _, _)
siftup(heap, newitem, startpos, pos) ==
    IF 2 * pos <= Len(heap)
    THEN LET childpos == IF 2 * pos + 1 <= Len(heap)
                            /\ ~job_lt(heap[2 * pos], heap[2 * pos + 1])
                         THEN 2 * pos + 1 ELSE 2 * pos
         IN siftup([heap EXCEPT ![pos] = heap[childpos]], newitem, startpos, childpos)
    ELSE siftdown(heap, newitem, startpos, pos)

\* self._queue.put(job): heapq.heappush.
heappush(heap, item) == siftdown(Append(heap, item), item, 1, Len(heap) + 1)

\* self._queue.get(): heapq.heappop, the item and the heap it leaves.
heappop(heap) ==
    LET lastelt == heap[Len(heap)]
        rest == SubSeq(heap, 1, Len(heap) - 1)
    IN IF rest # <<>>
       THEN [item |-> rest[1], heap |-> siftup(rest, lastelt, 1, 1)]
       ELSE [item |-> lastelt, heap |-> <<>>]

\* Mutant of count_check: a check that did not return OK is not counted.
count_check_ok_only(acc, checked) ==
    IF checked.raised THEN [acc EXCEPT !.st = checked.st, !.raised = TRUE]
    ELSE [acc EXCEPT !.st = checked.st,
                     !.ok = @ + IF checked.result = "OK" THEN 1 ELSE 0,
                     !.findings = @ + checked.new_findings]

\* _process_full_run, lines 120 to 125: the counts after one category.
count_check(acc, checked) ==
    IF checked.raised THEN [acc EXCEPT !.st = checked.st, !.raised = TRUE]
    ELSE [acc EXCEPT !.st = checked.st,
                     !.ok = @ + IF checked.result = "OK" THEN 1 ELSE 0,
                     !.errors = @ + IF checked.result = "OK" THEN 0 ELSE 1,
                     !.findings = @ + checked.new_findings]

\* _process_full_run, the loop over enabled_categories from the i-th category
\* on; cats is the list of categories read before the loop. An exception of
\* a check ends the loop.
RECURSIVE full_run_loop(_, _, _, _, _)
full_run_loop(acc, cats, url, env, i) ==
    IF i > Len(CategoryKeys) \/ acc.raised THEN acc
    ELSE IF ~cats[CategoryKeys[i]].enabled THEN full_run_loop(acc, cats, url, env, i + 1)
    ELSE full_run_loop(
             count_check(acc, process_single_category(acc.st, url, CategoryKeys[i],
                                                      FALSE, env)),
             cats, url, env, i + 1)

\* _process_full_run, lines 126 to 129: notified is what _send_notifications did.
full_run_finished(looped, notified, run_id) ==
    IF notified.raised THEN [st |-> notified.st, raised |-> TRUE]
    ELSE [st |-> [notified.st EXCEPT
                     !.runs = finish_run(@, run_id, looped.ok, looped.errors,
                                         looped.findings, notified.st.clock)],
          raised |-> FALSE]

\* _process_full_run, lines 126 to 131: looped is what the loop did.
full_run_notified(looped, owner, fail_at, run_id) ==
    IF looped.raised THEN [st |-> looped.st, raised |-> TRUE]
    ELSE full_run_finished(looped, send_notifications(looped.st, owner, fail_at), run_id)

\* _process_full_run(job), with self._bot set.
process_full_run(st0, url, owner, env, fail_at) ==
    full_run_notified(
        full_run_loop([st |-> [st0 EXCEPT !.clock = @ + 1,
                                          !.runs = create_run(@, st0.clock + 1, "all")],
                       ok |-> 0, errors |-> 0, findings |-> 0, raised |-> FALSE],
                      st0.categories, url, env, 1),
        owner, fail_at, Len(st0.runs) + 1)

\* _runner, lines 101 to 103: checked is what the check did; then the
\* notifications (and _refresh_views, which changes nothing modelled).
category_job_notified(checked, owner, fail_at) ==
    IF checked.raised THEN [st |-> checked.st, raised |-> TRUE, checked |-> checked]
    ELSE [st |-> send_notifications(checked.st, owner, fail_at).st,
          raised |-> send_notifications(checked.st, owner, fail_at).raised,
          checked |-> checked]

\* _runner, the category branch.
process_category_job(st0, url, owner, cat, env, fail_at) ==
    category_job_notified(process_single_category(st0, url, cat, TRUE, env), owner, fail_at)

\* _runner, lines 98 to 103: what processing the job does.
process_job(st0, url, owner, job, env, fail_at) ==
    IF job.kind = "full"
    THEN process_full_run(st0, url, owner, env, fail_at)
    ELSE [st |-> process_category_job(st0, url, owner, job.category, env, fail_at).st,
          raised |-> process_category_job(st0, url, owner, job.category, env, fail_at).raised]

\* Mutant of runner_enters: the job is started as a task of its own and the
\* runner goes back to the queue without holding the lock.
runner_detaches(job) == [task |-> [pc |-> "get", job |-> NoJob], lock |-> FALSE]

\* _runner, lines 97 to 103: the runner holds self._lock and awaits the job's
\* processing.
runner_enters(job) == [task |-> [pc |-> "process", job |-> job], lock |-> TRUE]

\* self._task before start: no runner.
NoTask == [pc |-> "none", job |-> NoJob]

\* self._sms_future: None, or a future that is pending or done with a text.
NoFuture == [state |-> "none", result |-> <<>>]

\* The record of the latest ensure_auth call, before any call.
NoAuth ==
    [n |-> 0, force |-> FALSE, url |-> "", had_context |-> FALSE, launch |-> FALSE,
     cached_state |-> NULL, cached_exp |-> NULL, at |-> 0, preflight |-> NULL,
     steps |-> <<>>, state |-> NULL]

\* No login waits for a code. message is the last message the operator got
\* ("prompt", "invalid", "timeout"); ended tells how the last wait ended: "no"
\* (it has not), "code", "timeout" or "limit"; call is the record of the
\* ensure_auth call that waits.
NoPrompt == [pc |-> "idle", remaining |-> 0, message |-> NULL, ended |-> "no", call |-> NoAuth]

\* The record of the latest operator input, before any input. Texts are
\* tuples of characters.
NoInput == [via |-> "none", text |-> <<>>, remaining |-> 0]

\* self._captcha_future and self._manual_future: None, or a future that is
\* pending or done with a boolean.
NoFlag == [state |-> "none", result |-> FALSE]

\* A future after loop.create_future(), before it has a result.
PendingFlag == [state |-> "pending", result |-> FALSE]

PendingText == [state |-> "pending", result |-> <<>>]

\* Who calls ensure_auth: the scheduler's check (scheduler.py line 142, manual
\* and force false) and the operator's re-authentication (menu.py line 1153,
\* manual and force true).
Callers == {"scheduler", "operator"}

\* No ensure_auth call of the caller is under way. steps: which of _preflight
\* and _perform_login have begun; remaining: the attempts _prompt_sms_code has
\* left; timed_out: a wait of the call ended by its timeout.
NoCall == [pc |-> "idle", steps |-> <<>>, remaining |-> 0, timed_out |-> FALSE]

\* The record of the latest return of ensure_auth in SpecLogin, before any.
\* state is the returned state, or "RAISED" when the call raised; waiting:
\* the callers that waited for the lock when the call returned.
NoReturn ==
    [n |-> 0, caller |-> NULL, state |-> NULL, steps |-> <<>>, timed_out |-> FALSE,
     path |-> NULL, waiting |-> {}]

\* The operations that open a page of the browsing context outside
\* ensure_auth: the scrape of a category check (scheduler.py, lines 159 to
\* 275), capture_category_screenshot and capture_portal_error.
PageOps == {"scrape", "category", "portal_error"}

\* The operation is not under way. after: the return of ensure_auth the last
\* scrape followed.
NoPage == [pc |-> "idle", after |-> 0]

\* The threads run_in_thread gives the store calls of two handlers.
Threads == {"t1", "t2"}

\* No set_category_enabled call is under way in the thread. key and on are the
\* arguments; ids is the parsed snapshot and enabled_ids the list of the
\* enabled watches, the locals of the call.
NoToggle == [pc |-> "idle", key |-> NULL, on |-> FALSE, ids |-> {}, enabled_ids |-> <<>>]

\* The runner processes no job. phase: where _process_full_run or the category
\* branch of _runner stands; job: created_at of the job; i: the category the
\* loop is at; run_id: the run record of a full run and check_run the one of a
\* category job (0: none); ok, errors, findings: the counts of the full run;
\* pending and j: the list _send_notifications read and the finding it is at;
\* ended: how the last job ended.
NoRun ==
    [phase |-> "idle", job |-> 0, i |-> 0, run_id |-> 0, check_run |-> 0,
     ok |-> 0, errors |-> 0, findings |-> 0, pending |-> <<>>, j |-> 0,
     ended |-> "none"]

\* The record of the latest check, before any check.
NoCheck ==
    [n |-> 0, at |-> 0, cat |-> NULL, auth |-> NULL, scraped |-> "no",
     updates |-> no_updates,
     before |-> [k \in Cities |-> NULL]]

(***************************************************************************)
(* The state after init_db                                                 *)
(***************************************************************************)

InitStore ==
    /\ categories = seed_categories
    /\ watches = seed_watches
    /\ watch_rows = seed_rows(<<>>, 1, 1)
    /\ toggle_calls = [t \in Threads |-> NoToggle]
    /\ settings = [key \in SettingsKeys |-> <<>>]
    /\ findings = <<>>
    /\ diagnostics = <<>>
    /\ runs = <<>>
    /\ clock = 0
    /\ context = FALSE
    /\ toggled = [c \in Categories |-> NoTrip]
    /\ last_check = NoCheck

\* WatcherScheduler.__init__.
InitScheduler ==
    /\ queue = <<>>
    /\ running = FALSE
    /\ task = NoTask
    /\ periodic_task = "none"
    /\ lock = FALSE
    /\ active = {}
    /\ taken = <<>>
    /\ created = 0
    /\ run = NoRun
    /\ delivered = {}
    /\ resent = {}

\* AuthManager.__init__.
InitAuthManager ==
    /\ sms_future = NoFuture
    /\ sms_prompt = NoPrompt
    /\ last_auth = NoAuth
    /\ sms_input = NoInput
    /\ auth_lock = "none"
    /\ calls = [c \in Callers |-> NoCall]
    /\ captcha_future = NoFlag
    /\ manual_future = NoFlag
    /\ last_return = NoReturn
    /\ pages = [op \in PageOps |-> NoPage]

\* CAPTCHA_PROVIDER and CAPTCHA_API_KEY are not set: the defaults of
\* AuthManager.__init__.
DefaultCaptcha == captcha_provider = "auto" /\ captcha_key = FALSE

\* The application before its startup hook.
InitApp == InitStore /\ InitScheduler /\ InitAuthManager /\ DefaultCaptcha

(***************************************************************************)
(* SpecStore: the operator's control surface on the store                  *)
(***************************************************************************)

\* bot/menu.py handle_toggle_category and direct callers.
ToggleCategory == \E c \in Categories, on \in BOOLEAN : set_category_enabled(c, on)

\* bot/menu.py handle_toggle_city.
ToggleWatch == \E c \in Categories, k \in Cities, on \in BOOLEAN : enable_watch(c, k, on)

\* bot/menu.py handle_pause_all / handle_resume_all, one category of its loop.
ToggleAllWatches == \E c \in Categories, on \in BOOLEAN : enable_all_watches(c, on)

NextStore == ToggleCategory \/ ToggleWatch \/ ToggleAllWatches

\* The toggles read no configuration: any is as good.
InitToggles == InitApp /\ login_url = PortalUrl /\ owner_id = 1

SpecStore == InitToggles /\ [][NextStore]_vars

(***************************************************************************)
(* SpecCheck: category checks, one after the other                         *)
(***************************************************************************)

\* The number of category checks a behaviour makes.
MaxChecks == 3

\* The environments of one check.
LoadedPages ==
    {[kind |-> "loaded", http_status |-> "200", labels |-> p, text |-> ""] : p \in Pages}

FailedPages ==
    {[kind |-> "timeout", http_status |-> NULL, labels |-> <<>>, text |-> ""],
     [kind |-> "error", http_status |-> NULL, labels |-> <<>>, text |-> "net::ERR_FAILED"],
     [kind |-> "new_page_error", http_status |-> NULL, labels |-> <<>>, text |-> ""]}

EmptyPage == [kind |-> "loaded", http_status |-> "200", labels |-> <<>>, text |-> ""]

\* Every page with the browser up and the session accepted; every outcome of
\* the browser, the preflight and the login with the empty page.
CheckEnvs ==
    {e \in [launch : BOOLEAN, preflight : {"OK", "NEED_AUTH"},
            login : {"OK", "NEED_SMS"}, page : LoadedPages \cup FailedPages] :
        (e.launch /\ e.preflight = "OK" /\ e.login = "OK") \/ e.page = EmptyPage}

\* The checked category of SpecCheck; the other one shows what a check leaves alone.
CheckedCategories == {"TRVALY_5Y"}

SetSt(st) ==
    /\ categories' = st.categories
    /\ watches' = st.watches
    /\ settings' = st.settings
    /\ findings' = st.findings
    /\ diagnostics' = st.diagnostics
    /\ runs' = st.runs
    /\ clock' = st.clock
    /\ context' = st.context

\* The tables after a category job, and the record of what it did.
CategoryJobDone(done, cat) ==
    /\ SetSt(done.st)
    /\ last_check' =
           [n |-> last_check.n + 1, at |-> done.checked.st.clock, cat |-> cat,
            auth |-> done.checked.result, scraped |-> done.checked.scraped,
            updates |-> done.checked.updates,
            before |-> [k \in Cities |-> watches[WatchId(cat, k)].last_seen_value]]
    /\ UNCHANGED <<configVars, auxVars, loginVars, runVars, toggled, schedVars, authVars>>

\* A category job of the runner.
CategoryJob(cat, env, fail_at) ==
    CategoryJobDone(process_category_job(St, login_url, owner_id, cat, env, fail_at), cat)

CheckCategory ==
    /\ last_check.n < MaxChecks
    /\ \E cat \in CheckedCategories, env \in CheckEnvs, fail_at \in {0, 1} :
           CategoryJob(cat, env, fail_at)

InitCheck == InitApp /\ login_url = PortalUrl /\ owner_id \in {0, 1}

NextCheck == CheckCategory

SpecCheck == InitCheck /\ [][NextCheck]_vars

(***************************************************************************)
(* SpecQueue: the scheduler's queue, its runner and its timer              *)
(***************************************************************************)

\* The number of jobs a behaviour makes.
MaxJobs == 5

\* The environment of the jobs of SpecQueue: LOGIN_URL is not set there, so
\* every check ends at ensure_auth and the rest of it is not consulted.
QueueEnv == [launch |-> TRUE, preflight |-> "OK", login |-> "OK", page |-> EmptyPage]

\* put(job): the job joins the heap.
Put(job) ==
    /\ queue' = heappush(queue, job)
    /\ created' = created + 1

\* start(bot, interval_minutes): nothing while the runner's task is not done.
Start ==
    /\ task.pc \in {"none", "done"}
    /\ created < MaxJobs
    /\ running' = TRUE
    /\ task' = [pc |-> "get", job |-> NoJob]
    /\ periodic_task' = "sleep"
    /\ Put(Job(0, created + 1, "full", NULL, "startup"))
    /\ UNCHANGED <<lock, active, taken>>
    /\ UNCHANGED <<storeVars, configVars, auxVars, loginVars, runVars, context, toggled, last_check, authVars>>

\* stop(): both tasks are cancelled; a job that is being processed is
\* abandoned at its await and the lock it held is released.
Stop ==
    /\ task.pc # "none"
    /\ running' = FALSE
    /\ task' = [pc |-> "done", job |-> NoJob]
    /\ periodic_task' = "done"
    /\ lock' = FALSE
    /\ active' = {}
    /\ UNCHANGED <<queue, taken, created>>
    /\ UNCHANGED <<storeVars, configVars, auxVars, loginVars, runVars, context, toggled, last_check, authVars>>

\* bot/menu.py handle_check_all: enqueue_full_check(priority=True, reason="manual").
\* The handlers run once the startup hook has started the scheduler.
enqueue_full_check ==
    /\ task.pc # "none"
    /\ created < MaxJobs
    /\ Put(Job(0, created + 1, "full", NULL, "manual"))
    /\ UNCHANGED <<running, task, periodic_task, lock, active, taken>>
    /\ UNCHANGED <<storeVars, configVars, auxVars, loginVars, runVars, context, toggled, last_check, authVars>>

\* bot/menu.py handle_category_check: enqueue_category_check(cat_key,
\* priority=True, reason="manual").
enqueue_category_check(cat) ==
    /\ task.pc # "none"
    /\ created < MaxJobs
    /\ Put(Job(0, created + 1, "category", cat, "manual"))
    /\ UNCHANGED <<running, task, periodic_task, lock, active, taken>>
    /\ UNCHANGED <<storeVars, configVars, auxVars, loginVars, runVars, context, toggled, last_check, authVars>>

\* _periodic, after a sleep: enqueue_full_check(priority=False, reason="interval").
Periodic ==
    /\ periodic_task = "sleep"
    /\ created < MaxJobs
    /\ Put(Job(1, created + 1, "full", NULL, "interval"))
    /\ UNCHANGED <<running, task, periodic_task, lock, active, taken>>
    /\ UNCHANGED <<storeVars, configVars, auxVars, loginVars, runVars, context, toggled, last_check, authVars>>

\* _runner, line 96: job = await self._queue.get().
RunnerGet ==
    /\ task.pc = "get"
    /\ running
    /\ queue # <<>>
    /\ queue' = heappop(queue).heap
    /\ task' = [pc |-> "acquire", job |-> heappop(queue).item]
    /\ taken' = Append(taken, heappop(queue).item)
    /\ UNCHANGED <<running, periodic_task, lock, active, created>>
    /\ UNCHANGED <<storeVars, configVars, auxVars, loginVars, runVars, context, toggled, last_check, authVars>>

\* _runner, line 97: async with self._lock, and the processing begins.
RunnerAcquire ==
    /\ task.pc = "acquire"
    /\ ~lock
    /\ task' = runner_enters(task.job).task
    /\ lock' = runner_enters(task.job).lock
    /\ active' = active \cup {task.job.created_at}
    /\ UNCHANGED <<queue, running, periodic_task, taken, created>>
    /\ UNCHANGED <<storeVars, configVars, auxVars, loginVars, runVars, context, toggled, last_check, authVars>>

\* _runner, lines 104 and 95: the lock is released and task_done called; an
\* exception of the processing ends the runner's task. done is what the
\* processing did.
RunnerProcessed(done) ==
    /\ SetSt(done.st)
    /\ lock' = FALSE
    /\ active' = active \ {task.job.created_at}
    /\ task' = [pc |-> IF done.raised THEN "done" ELSE "get", job |-> NoJob]
    /\ UNCHANGED <<queue, running, periodic_task, taken, created>>
    /\ UNCHANGED <<configVars, auxVars, loginVars, runVars, toggled, last_check, authVars>>

\* _runner, lines 98 to 104: the job is processed.
RunnerProcess(env, fail_at) ==
    /\ task.pc = "process"
    /\ RunnerProcessed(process_job(St, login_url, owner_id, task.job, env, fail_at))

\* One category is enabled, as set_category_enabled leaves it.
InitQueue ==
    /\ InitScheduler
    /\ InitAuthManager
    /\ DefaultCaptcha
    /\ categories = set_category_enabled_store(seed_categories, seed_watches,
           [key \in SettingsKeys |-> <<>>], "PRECHODNY", TRUE).categories
    /\ watches = seed_watches
    /\ watch_rows = seed_rows(<<>>, 1, 1)
    /\ toggle_calls = [t \in Threads |-> NoToggle]
    /\ settings = [key \in SettingsKeys |-> <<>>]
    /\ findings = <<>>
    /\ diagnostics = <<>>
    /\ runs = <<>>
    /\ clock = 0
    /\ context = FALSE
    /\ toggled = [c \in Categories |-> NoTrip]
    /\ last_check = NoCheck
    /\ login_url = ""
    /\ owner_id = 1

NextQueue ==
    \/ Start
    \/ Stop
    \/ enqueue_full_check
    \/ \E cat \in CheckedCategories : enqueue_category_check(cat)
    \/ Periodic
    \/ RunnerGet
    \/ RunnerAcquire
    \/ \E fail_at \in {0} : RunnerProcess(QueueEnv, fail_at)

SpecQueue == InitQueue /\ [][NextQueue]_vars

(***************************************************************************)
(* C1: the scheduler never runs two jobs concurrently: in every reachable  *)
(* state at most one job is between the start and the end of its           *)
(* processing, and it is the job the runner holds under the lock.          *)
(***************************************************************************)
C1_OneJobAtATime ==
    /\ Cardinality(active) <= 1
    /\ active # {} => /\ lock
                      /\ task.pc = "process"
                      /\ active = {task.job.created_at}

\* A job is being processed after another one was, with a manual and a
\* periodic job waiting in the queue.
C1_Witness ==
    /\ Len(taken) >= 2
    /\ active = {taken[Len(taken)].created_at}
    /\ \E i, j \in DOMAIN queue : queue[i].priority = 0 /\ queue[j].priority = 1

\* What C9 asks of a step.
C9_Step ==
    /\ Len(taken') > Len(taken) =>
           ((\E i \in DOMAIN queue : queue[i].priority = 0)
                => taken'[Len(taken')].priority = 0)
    /\ (created' > created /\ active # {}) =>
           (active' = active /\ task' = task /\ lock' = lock)

(***************************************************************************)
(* C9: whenever the runner takes a job while a manual (priority 0) job is  *)
(* queued, the job it takes is a manual one; and a step that enqueues a    *)
(* job while a job is being processed leaves that job, the runner and the  *)
(* lock as they are.                                                       *)
(***************************************************************************)
C9_ManualBeforePeriodic == [][C9_Step]_vars

\* A manual job was taken before a periodic job that had been enqueued
\* before it, and a manual job is queued while a job is being processed.
C9_Witness ==
    /\ \E i, j \in DOMAIN taken :
           /\ i < j
           /\ taken[i].priority = 0
           /\ taken[j].priority = 1
           /\ taken[j].created_at < taken[i].created_at
    /\ active # {}
    /\ \E i \in DOMAIN queue : queue[i].priority = 0

(***************************************************************************)
(* C10: jobs of equal priority are taken in the order they were enqueued:  *)
(* of two taken jobs with the same priority the one taken first was        *)
(* created first.                                                          *)
(***************************************************************************)
C10_EqualPriorityFifo ==
    \A i, j \in DOMAIN taken :
        (i < j /\ taken[i].priority = taken[j].priority)
            => taken[i].created_at < taken[j].created_at

(***************************************************************************)
(* SpecAuth: ensure_auth, the wait for the SMS code and the operator       *)
(***************************************************************************)

\* The number of ensure_auth calls a behaviour makes, the hours it lasts and
\* the hours that pass at a time.
MaxAuthCalls == 2

MaxHours == 9

TickHours == 3

AuthEnvs ==
    [launch : BOOLEAN, preflight : {"OK", "NEED_AUTH"},
     login : {"OK", "NEED_AUTH", "NEED_SMS"}]

\* The tables after an ensure_auth call, and the record of what it did.
EnsureAuthDone(done, force, env) ==
    /\ SetSt(done.st)
    /\ last_auth' = auth_record(force, env, done.steps, done.state)
    /\ UNCHANGED <<configVars, auxVars, loginVars, runVars, toggled, last_check, schedVars>>
    /\ UNCHANGED <<sms_future, sms_prompt, sms_input>>

\* ensure_auth(bot, force=force) by any caller, for a login that asks the
\* operator nothing: the lock is free and the call runs to its return.
EnsureAuth(force, env) ==
    /\ sms_prompt.pc = "idle"
    /\ last_auth.n < MaxAuthCalls
    /\ EnsureAuthDone(ensure_auth_call(St, login_url, force, env), force, env)

\* ensure_auth(bot, force=force) up to the first await of _prompt_sms_code:
\* the login runs, the portal asks for a code and the operator is prompted.
BeginSmsLogin(force, env) ==
    /\ sms_prompt.pc = "idle"
    /\ last_auth.n < MaxAuthCalls
    /\ login_url # ""
    /\ context \/ env.launch
    /\ ~(may_use_cache(force, settings, clock) /\ env.preflight = "OK")
    /\ owner_id # 0
    /\ context' = TRUE
    /\ settings' = settings_set(settings, SmsPendingKey, "1")
    /\ sms_future' = [state |-> "pending", result |-> <<>>]
    /\ sms_prompt' =
           [pc |-> "wait", remaining |-> sms_attempts, message |-> "prompt", ended |-> "no",
            call |-> auth_record(force, env,
                         IF may_use_cache(force, settings, clock)
                         THEN <<"preflight", "login">> ELSE <<"login">>, NULL)]
    /\ sms_input' = NoInput
    /\ UNCHANGED <<categories, watches, findings, diagnostics, runs, clock>>
    /\ UNCHANGED <<configVars, auxVars, loginVars, runVars, toggled, last_check, schedVars, last_auth>>

\* try_handle_owner_message(message) while a code is awaited: a text that is
\* not six digits is answered and the future stays pending.
try_handle_owner_message(text) ==
    /\ sms_future.state = "pending"
    /\ sms_input' = [via |-> "text", text |-> text, remaining |-> sms_prompt.remaining]
    /\ IF six_digits(text)
       THEN /\ sms_future' = [state |-> "done", result |-> text]
            /\ UNCHANGED sms_prompt
       ELSE /\ sms_prompt' = [sms_prompt EXCEPT !.message = "invalid"]
            /\ UNCHANGED sms_future
    /\ UNCHANGED <<storeVars, configVars, auxVars, loginVars, runVars, context, toggled, last_check, schedVars, last_auth>>

\* submit_sms_code(code) while a code is awaited.
submit_sms_code(code) ==
    /\ sms_future.state = "pending"
    /\ sms_future' = [state |-> "done", result |-> code]
    /\ sms_input' = [via |-> "submit", text |-> code, remaining |-> sms_prompt.remaining]
    /\ UNCHANGED <<storeVars, configVars, auxVars, loginVars, runVars, context, toggled, last_check, schedVars>>
    /\ UNCHANGED <<last_auth, sms_prompt>>

\* _prompt_sms_code returns (code is <<>> for None) and with it _perform_login
\* and ensure_auth: result is what the login returns.
SmsLoginReturns(ended, result, message) ==
    /\ settings' = after_login(settings_set(settings, SmsPendingKey, "0"), result, clock)
    /\ sms_future' = NoFuture
    /\ sms_prompt' = [sms_prompt EXCEPT !.pc = "idle", !.ended = ended,
                                        !.message = message]
    /\ last_auth' = [sms_prompt.call EXCEPT !.state = result]
    /\ UNCHANGED <<categories, watches, findings, diagnostics, runs, clock>>
    /\ UNCHANGED <<configVars, auxVars, loginVars, runVars, context, toggled, last_check, schedVars, sms_input>>

\* _prompt_sms_code, lines 579 to 584: no result within the 120 seconds.
SmsTimeout ==
    /\ sms_prompt.pc = "wait"
    /\ sms_future.state = "pending"
    /\ SmsLoginReturns("timeout", "NEED_SMS", "timeout")

\* Mutant of SmsResume: the loop has no last attempt, every invalid code is
\* followed by another prompt.
SmsResumeUnbounded(after) ==
    /\ sms_prompt.pc = "wait"
    /\ sms_future.state = "done"
    /\ IF six_digits(sms_future.result)
       THEN SmsLoginReturns("code", after, sms_prompt.message)
       ELSE /\ sms_prompt' = [sms_prompt EXCEPT !.remaining = @ - 1, !.message = "prompt"]
            /\ sms_future' = [state |-> "pending", result |-> <<>>]
            /\ UNCHANGED <<storeVars, configVars, auxVars, loginVars, runVars, context, toggled, last_check>>
            /\ UNCHANGED <<schedVars, last_auth, sms_input>>

\* _prompt_sms_code, lines 585 to 593, once the future has its result: a code
\* of six digits is entered and the login ends as the preflight after it says;
\* any other result is answered and the next attempt begins, if one is left.
SmsResume(after) ==
    /\ sms_prompt.pc = "wait"
    /\ sms_future.state = "done"
    /\ IF six_digits(sms_future.result)
       THEN SmsLoginReturns("code", after, sms_prompt.message)
       ELSE IF sms_prompt.remaining > 1
       THEN /\ sms_prompt' = [sms_prompt EXCEPT !.remaining = @ - 1, !.message = "prompt"]
            /\ sms_future' = [state |-> "pending", result |-> <<>>]
            /\ UNCHANGED <<storeVars, configVars, auxVars, loginVars, runVars, context, toggled, last_check>>
            /\ UNCHANGED <<schedVars, last_auth, sms_input>>
       ELSE SmsLoginReturns("limit", "NEED_SMS", "invalid")

\* Time passes.
Tick ==
    /\ clock + TickHours <= MaxHours
    /\ clock' = clock + TickHours
    /\ UNCHANGED <<categories, watches, settings, findings, diagnostics, runs>>
    /\ UNCHANGED <<configVars, auxVars, loginVars, runVars, context, toggled, last_check, schedVars, authVars>>

InitAuth == InitApp /\ login_url \in {"", PortalUrl} /\ owner_id = 1

NextAuth ==
    \/ \E force \in BOOLEAN, env \in AuthEnvs : EnsureAuth(force, env)
    \/ \E force \in BOOLEAN, env \in AuthEnvs : BeginSmsLogin(force, env)
    \/ \E text \in OperatorTexts : try_handle_owner_message(text)
    \/ \E code \in OperatorTexts : submit_sms_code(code)
    \/ SmsTimeout
    \/ \E after \in {"OK", "NEED_AUTH"} : SmsResume(after)
    \/ Tick

SpecAuth == InitAuth /\ [][NextAuth]_vars

\* The persisted state was OK and its expiry in the future when the last
\* ensure_auth call was made.
CacheWasValid ==
    /\ last_auth.cached_state = "OK"
    /\ last_auth.cached_exp \notin {NULL, ""}
    /\ fromisoformat(last_auth.cached_exp) > last_auth.at

\* The last ensure_auth call got past its two early returns: LOGIN_URL is set
\* and the browser context is there.
ReachedTheCache ==
    /\ last_auth.n > 0
    /\ last_auth.url # ""
    /\ last_auth.had_context \/ last_auth.launch

(***************************************************************************)
(* C5: an ensure_auth(force=false) call made while the persisted state is  *)
(* OK and the persisted expiry is in the future, and whose preflight       *)
(* returns OK, runs the preflight only, no login, and returns OK. (A       *)
(* preflight returns only in a call that got past the two early returns.)  *)
(***************************************************************************)
C5_ValidCacheSkipsLogin ==
    (ReachedTheCache /\ ~last_auth.force /\ CacheWasValid /\ last_auth.preflight = "OK")
        => (last_auth.steps = <<"preflight">> /\ last_auth.state = "OK")

\* Such a call was made after an hour had passed since the login.
C5_Witness ==
    /\ ReachedTheCache
    /\ ~last_auth.force
    /\ CacheWasValid
    /\ last_auth.preflight = "OK"
    /\ last_auth.at > 0
    /\ last_auth.steps = <<"preflight">>

(***************************************************************************)
(* C6, as stated: every ensure_auth(force=true) call runs the full login,  *)
(* whatever the persisted state and expiry are.                            *)
(***************************************************************************)
C6_ForceAlwaysLogsIn ==
    (last_auth.n > 0 /\ last_auth.force) => last_auth.steps = <<"login">>

(***************************************************************************)
(* C6, amended: every ensure_auth(force=true) call made with LOGIN_URL     *)
(* set and the browser context available runs the full login and no        *)
(* preflight before it, whatever the persisted state and expiry are.       *)
(***************************************************************************)
C6_ForceLogsInPastTheGuards ==
    (ReachedTheCache /\ last_auth.force) => last_auth.steps = <<"login">>

\* A forced call logged in although the cache was valid and a preflight
\* would have returned OK.
C6_Witness ==
    /\ ReachedTheCache
    /\ last_auth.force
    /\ CacheWasValid
    /\ last_auth.preflight = "OK"
    /\ last_auth.steps = <<"login">>

(***************************************************************************)
(* C7: an operator input that is not exactly six digits, through the text  *)
(* hook or through submit_sms_code, leaves the number of remaining         *)
(* attempts of the prompt as it was when the input arrived.                *)
(***************************************************************************)
C7_InvalidInputKeepsAttempts ==
    (sms_input.via # "none" /\ ~six_digits(sms_input.text))
        => sms_prompt.remaining = sms_input.remaining

\* The findings a check made at time at for a watch.
FindingsAt(watch_id, at) ==
    {i \in DOMAIN findings :
        findings[i].watch_id = watch_id /\ findings[i].found_at = at}

\* The diagnostics a check recorded at time at for a (category, city) pair.
DiagnosticsAt(cat, city, at) ==
    {i \in DOMAIN diagnostics :
        /\ diagnostics[i].category_code = cat
        /\ diagnostics[i].city_key = city
        /\ diagnostics[i].recorded_at = at}

\* The diagnostics of the pair of row i that were recorded before row i.
Preceding(i) ==
    {j \in 1..(i - 1) : /\ diagnostics[j].category_code = diagnostics[i].category_code
                        /\ diagnostics[j].city_key = diagnostics[i].city_key}

(***************************************************************************)
(* C2: a category check creates a Finding for a watch exactly when the     *)
(* page gave a date for it that differs from the watch's last-seen value   *)
(* at the start of the check, one Finding and with that date; the date     *)
(* becomes the last-seen value, so every later check that extracts the     *)
(* same date creates none. Stated of the latest check of every reachable   *)
(* state.                                                                  *)
(***************************************************************************)
C2_OneFindingPerNewDate ==
    last_check.n > 0 =>
        \A k \in Cities :
            LET id == WatchId(last_check.cat, k)
                date == last_check.updates[k].date_str
                made == FindingsAt(id, last_check.at)
            IN /\ IF last_check.scraped = "yes" /\ date # NULL /\ date # last_check.before[k]
                  THEN /\ Cardinality(made) = 1
                       /\ \A i \in made : findings[i].found_value = date
                  ELSE made = {}
               /\ (last_check.scraped = "yes" /\ date # NULL)
                      => watches[id].last_seen_value = date

\* A later check extracted the date the watch had last seen: the one Finding
\* of that date is the earlier one, and the check made none.
C2_Witness ==
    /\ last_check.n >= 2
    /\ last_check.scraped = "yes"
    /\ \E k \in Cities :
           LET id == WatchId(last_check.cat, k)
               date == last_check.updates[k].date_str
           IN /\ date # NULL
              /\ date = last_check.before[k]
              /\ FindingsAt(id, last_check.at) = {}
              /\ Cardinality({i \in DOMAIN findings :
                     findings[i].watch_id = id /\ findings[i].found_value = date}) = 1

(***************************************************************************)
(* C3: the first Diagnostic of a (category, city) pair is classified       *)
(* "new"; every later one is "changed" if its content hash differs from    *)
(* the hash of the pair's immediately preceding Diagnostic and "same" if   *)
(* not, the rows of the timeout and error paths (empty text) included.     *)
(***************************************************************************)
C3_DiffAnchorAgainstPreceding ==
    \A i \in DOMAIN diagnostics :
        LET before == Preceding(i)
        IN diagnostics[i].diff_anchor =
               IF before = {} THEN "new"
               ELSE IF diagnostics[LastOf(before)].anchor_hash # diagnostics[i].anchor_hash
               THEN "changed"
               ELSE "same"

\* A pair has a "changed" row written by a timeout after a row with text, and
\* a "same" row written by an error path after it.
C3_Witness ==
    \E i, j \in DOMAIN diagnostics :
        /\ i < j
        /\ Preceding(i) # {}
        /\ LastOf(Preceding(j)) = i
        /\ diagnostics[i].comment = "timeout"
        /\ diagnostics[i].diff_anchor = "changed"
        /\ diagnostics[j].content_len = 0
        /\ diagnostics[j].diff_anchor = "same"

(***************************************************************************)
(* C8: after a category check that timed out, the category's status is     *)
(* ERROR, every watch of the category has status ERROR and error reason    *)
(* "timeout", and the check recorded exactly one Diagnostic per watch of   *)
(* the category, with null http status and comment "timeout".              *)
(***************************************************************************)
C8_TimeoutMarksCategory ==
    last_check.scraped = "timeout" =>
        /\ categories[last_check.cat].status = "ERROR"
        /\ \A k \in Cities :
               LET id == WatchId(last_check.cat, k)
                   rows == DiagnosticsAt(last_check.cat, k, last_check.at)
               IN /\ watches[id].status = "ERROR"
                  /\ watches[id].error_msg = "timeout"
                  /\ Cardinality(rows) = 1
                  /\ \A i \in rows : /\ diagnostics[i].http_status = NULL
                                     /\ diagnostics[i].comment = "timeout"

\* A check timed out after a check that had found a date for a watch.
C8_Witness ==
    /\ last_check.scraped = "timeout"
    /\ \E k \in Cities :
           /\ last_check.before[k] # NULL
           /\ watches[WatchId(last_check.cat, k)].error_msg = "timeout"
    /\ Len(diagnostics) = 2 * Len(CityKeys)

(***************************************************************************)
(* C4: disabling an enabled category whose enabled watches are S and then  *)
(* enabling it again, with no watch toggle in between, leaves exactly the  *)
(* watches of S enabled, the empty S included.                             *)
(***************************************************************************)
C4_RoundTripRestores ==
    \A c \in Categories :
        toggled[c].phase = "back" => EnabledSet(watches, c) = toggled[c].S

\* A round trip restored a non-empty proper subset of the watches of one
\* category, and the round trip of the other category had no watch enabled.
C4_Witness ==
    \E c, d \in Categories :
        /\ toggled[c].phase = "back"
        /\ toggled[c].S # {}
        /\ toggled[c].S # {id \in WatchIds : watches[id].category_key = c}
        /\ categories[c].enabled
        /\ toggled[d].phase = "back"
        /\ toggled[d].S = {}

(***************************************************************************)
(* auth/flow.py: ensure_auth step by step, from one await to the next      *)
(***************************************************************************)

\* The number of ensure_auth calls a behaviour of SpecLogin makes.
MaxLogins == 3

\* The arguments of the two callers: ensure_auth(bot) by the scheduler,
\* ensure_auth(bot, manual=True, force=True) by handle_admin_auth.
call_manual(c) == c = "operator"

call_force(c) == c = "operator"

\* Mutant of lock_free: only the calls of ensure_auth keep the others out.
lock_free_of_callers(l) == l \notin {"scheduler", "operator"}

\* Mutant of lock_free: the lock lets every caller in.
lock_always_free(l) == TRUE

\* async with self._lock: the caller enters when no caller holds the lock.
lock_free(l) == l = "none"

\* What a step of ensure_auth reads and writes besides the call itself.
Am ==
    [settings |-> settings, clock |-> clock, context |-> context, lock |-> auth_lock,
     manual |-> manual_future, captcha |-> captcha_future, sms |-> sms_future]

\* A step that ends the call: ret is the returned state, "RAISED" for an
\* exception that leaves ensure_auth; path names the return statement.
returns(am, call, state, path) == [am |-> am, call |-> call, ret |-> state, path |-> path]

\* A step that ends at an await: the call goes on at pc.
goes(am, call, pc) == [am |-> am, call |-> [call EXCEPT !.pc = pc], ret |-> "", path |-> ""]

\* Mutant of login_returns: the expiry is left as it was when the login fails.
login_returns_keeps_expiry(am, call, result) ==
    returns([am EXCEPT !.settings = IF result = "OK" THEN after_login(@, result, am.clock)
                                    ELSE settings_set(@, AuthStateKey, result),
                       !.lock = "none"],
            call, result, "login")

\* ensure_auth, lines 92 to 108: _perform_login has returned result; the state
\* and the expiry are stored, the lock is released.
login_returns(am, call, result) ==
    returns([am EXCEPT !.settings = after_login(@, result, am.clock), !.lock = "none"],
            call, result, "login")

\* An exception leaves _preflight or _perform_login and with it ensure_auth:
\* async with releases the lock, nothing is stored.
raises(am, call) == returns([am EXCEPT !.lock = "none"], call, "RAISED", "raised")

\* ensure_auth, lines 67 to 71: up to the wait for the lock.
ensure_auth_begin(am, call, url) ==
    IF url = "" THEN returns(am, call, "ERROR", "no_url")
    ELSE goes(am, call, "acquire")

\* ensure_auth, lines 71 to 92, once the lock is free: the context is made
\* (launch: whether the browser starts) and the cache is looked at.
ensure_auth_locked(am, call, c, force, launch) ==
    IF ~am.context /\ ~launch THEN returns(am, call, "ERROR", "no_context")
    ELSE IF may_use_cache(force, am.settings, am.clock)
    THEN goes([am EXCEPT !.context = TRUE, !.lock = c],
              [call EXCEPT !.steps = <<"preflight">>], "preflight")
    ELSE goes([am EXCEPT !.context = TRUE, !.lock = c],
              [call EXCEPT !.steps = <<"login">>], "login")

\* Mutant of preflight_done: a preflight that confirms OK renews the expiry.
preflight_done_renews(am, call, outcome) ==
    IF outcome = "RAISED" THEN raises(am, call)
    ELSE IF outcome = "OK"
    THEN returns([am EXCEPT !.settings = after_login(@, "OK", am.clock), !.lock = "none"],
                 call, "OK", "preflight")
    ELSE goes(am, [call EXCEPT !.steps = Append(@, "login")], "login")

\* ensure_auth, lines 86 to 92, with _preflight: outcome is the state it
\* returns, or "RAISED" when context.new_page() (line 253) raises.
preflight_done(am, call, outcome) ==
    IF outcome = "RAISED" THEN raises(am, call)
    ELSE IF outcome = "OK"
    THEN returns([am EXCEPT !.settings = settings_set(@, AuthStateKey, "OK"),
                            !.lock = "none"],
                 call, "OK", "preflight")
    ELSE goes(am, [call EXCEPT !.steps = Append(@, "login")], "login")

\* _perform_login, lines 278 to 284: page is "raise" when context.new_page()
\* raises (outside the try), "timeout" or "error" when the navigation does
\* (inside it), "ok" otherwise.
perform_login_open(am, call, page) ==
    IF page = "raise" THEN raises(am, call)
    ELSE IF page = "timeout"
    THEN login_returns([am EXCEPT !.settings = settings_set(@, SmsPendingKey, "0")],
                       call, "NEED_VPN")
    ELSE IF page = "error"
    THEN login_returns([am EXCEPT !.settings = settings_set(@, SmsPendingKey, "0")],
                       call, "ERROR")
    ELSE goes([am EXCEPT !.settings = settings_set(@, SmsPendingKey, "0")], call, "captcha")

\* _await_manual_captcha, lines 450 to 472, up to the wait: a future is made,
\* then the request is sent; a send that raises ends the login with ERROR and
\* leaves the future behind.
await_manual_captcha(am, call, owner, send_ok) ==
    IF owner = 0 THEN login_returns(am, call, "NEED_CAPTCHA")
    ELSE IF ~send_ok THEN login_returns([am EXCEPT !.captcha = PendingFlag], call, "ERROR")
    ELSE goes([am EXCEPT !.captcha = PendingFlag], call, "wait_captcha")

\* _prompt_manual_help, lines 418 to 421: the future of the offer.
prompt_manual_help(am, owner) == IF owner = 0 THEN am ELSE [am EXCEPT !.manual = PendingFlag]

\* _handle_recaptcha, lines 360 to 366.
handle_recaptcha_manual(am, call, owner, manual, provider, send_ok) ==
    IF manual \/ provider \in {"manual", "semi"}
    THEN await_manual_captcha(am, call, owner, send_ok)
    ELSE IF am.manual.state # "none" THEN goes(am, call, "wait_manual")
    ELSE login_returns(am, call, "NEED_CAPTCHA")

\* _handle_recaptcha: shown, whether the widget appears; token, whether one of
\* the two automatic attempts gets a solution; send_ok, whether the messages
\* to the operator are delivered.
handle_recaptcha(am, call, owner, manual, provider, key, shown, token, send_ok) ==
    IF ~shown THEN goes(am, call, "submit")
    ELSE IF provider = "auto" /\ key
    THEN IF token THEN goes(am, call, "submit")
         ELSE IF owner # 0 /\ ~send_ok
         THEN login_returns(prompt_manual_help(am, owner), call, "ERROR")
         ELSE handle_recaptcha_manual(prompt_manual_help(am, owner), call, owner, manual,
                                      provider, send_ok)
    ELSE handle_recaptcha_manual(am, call, owner, manual, provider, send_ok)

\* _wait_for_manual_start, lines 443 to 447, when the 180 seconds pass, and
\* _handle_recaptcha, line 366: the login ends with NEED_CAPTCHA.
manual_timeout(am, call) ==
    login_returns([am EXCEPT !.manual = NoFlag], [call EXCEPT !.timed_out = TRUE],
                  "NEED_CAPTCHA")

\* _wait_for_manual_start when the future has its result, and _handle_recaptcha,
\* lines 364 to 366.
manual_resume(am, call, owner, send_ok) ==
    IF am.manual.result
    THEN await_manual_captcha([am EXCEPT !.manual = NoFlag], call, owner, send_ok)
    ELSE login_returns([am EXCEPT !.manual = NoFlag], call, "NEED_CAPTCHA")

\* Mutant of captcha_timeout: the timeout is taken for the operator's consent.
captcha_timeout_proceeds(am, call) ==
    goes([am EXCEPT !.captcha = NoFlag], [call EXCEPT !.timed_out = TRUE], "submit")

\* _await_manual_captcha, lines 476 to 479, when the 300 seconds pass, and
\* _perform_login, line 287.
captcha_timeout(am, call) ==
    login_returns([am EXCEPT !.captcha = NoFlag], [call EXCEPT !.timed_out = TRUE],
                  "NEED_CAPTCHA")

\* _await_manual_captcha, lines 472 to 479, when the future has its result.
captcha_resume(am, call) ==
    IF am.captcha.result THEN goes([am EXCEPT !.captcha = NoFlag], call, "submit")
    ELSE login_returns([am EXCEPT !.captcha = NoFlag], call, "NEED_CAPTCHA")

\* _prompt_sms_code, lines 568 to 580, up to the first wait.
prompt_sms_code(am, call, owner, send_ok) ==
    IF owner = 0 THEN login_returns(am, call, "NEED_SMS")
    ELSE IF ~send_ok
    THEN login_returns([am EXCEPT !.settings = settings_set(@, SmsPendingKey, "1"),
                                  !.sms = PendingText],
                       call, "ERROR")
    ELSE goes([am EXCEPT !.settings = settings_set(@, SmsPendingKey, "1"),
                         !.sms = PendingText],
              [call EXCEPT !.remaining = sms_attempts], "wait_sms")

\* _perform_login, lines 289 to 315: the credentials are submitted; sms_needed,
\* whether the portal asks for a code; after, what the closing preflight says.
submit_credentials(am, call, owner, sms_needed, send_ok, after) ==
    IF sms_needed THEN prompt_sms_code(am, call, owner, send_ok)
    ELSE login_returns(am, call, after)

\* _prompt_sms_code, lines 581 to 586, when the 120 seconds pass (the message
\* about the timeout is taken to be delivered).
sms_timeout(am, call) ==
    login_returns([am EXCEPT !.settings = settings_set(@, SmsPendingKey, "0"),
                             !.sms = NoFuture],
                  [call EXCEPT !.timed_out = TRUE], "NEED_SMS")

\* _prompt_sms_code, lines 585 to 593, when the future has its result, and
\* _perform_login, lines 295 to 315.
sms_resume(am, call, after) ==
    IF six_digits(am.sms.result)
    THEN login_returns([am EXCEPT !.settings = settings_set(@, SmsPendingKey, "0"),
                                  !.sms = NoFuture],
                       call, after)
    ELSE IF call.remaining > 1
    THEN goes([am EXCEPT !.sms = PendingText], [call EXCEPT !.remaining = @ - 1], "wait_sms")
    ELSE login_returns([am EXCEPT !.settings = settings_set(@, SmsPendingKey, "0"),
                                  !.sms = NoFuture],
                       call, "NEED_SMS")

\* resolve_captcha(ok), on self._captcha_future.
resolve_captcha(f, ok) ==
    IF f.state = "pending" THEN [state |-> "done", result |-> ok] ELSE f

\* request_manual_captcha(), on self._manual_future.
request_manual_captcha(f) ==
    IF f.state = "pending" THEN [state |-> "done", result |-> TRUE] ELSE f

\* submit_sms_code(code), on self._sms_future.
sms_code_submitted(f, code) ==
    IF f.state = "pending" THEN [state |-> "done", result |-> code] ELSE f

\* The words try_handle_owner_message knows, in the Latin alphabet.
DoneWords == {<<"d", "o", "n", "e">>}

CancelWords == {<<"c", "a", "n", "c", "e", "l">>}

\* try_handle_owner_message(message), on self._manual_future (mf) and
\* self._sms_future (sf); text is message.text stripped, in lower case.
\* handled is what it returns.
owner_message_handled(mf, sf, text) ==
    IF mf.state = "pending" /\ text \in DoneWords
    THEN [manual |-> [state |-> "done", result |-> TRUE], sms |-> sf, handled |-> TRUE]
    ELSE IF mf.state = "pending" /\ text \in CancelWords
    THEN [manual |-> [state |-> "done", result |-> FALSE], sms |-> sf, handled |-> TRUE]
    ELSE IF sf.state = "pending"
    THEN IF ~six_digits(text) THEN [manual |-> mf, sms |-> sf, handled |-> TRUE]
         ELSE [manual |-> mf, sms |-> [state |-> "done", result |-> text], handled |-> TRUE]
    ELSE [manual |-> mf, sms |-> sf, handled |-> FALSE]

(***************************************************************************)
(* SpecLogin: two callers of ensure_auth, the operator's hooks, restarts   *)
(***************************************************************************)

\* What no step of ensure_auth and no hook writes.
LoginFrame ==
    UNCHANGED <<categories, watches, findings, diagnostics, runs, clock, configVars, auxVars,
                toggled, last_check, schedVars, sms_prompt, last_auth, sms_input,
                captcha_provider, captcha_key, runVars>>

\* What the caller does with the returned state: _process_single_category
\* stores it when it is not OK (scheduler.py, lines 143 and 144),
\* handle_admin_auth stores it always (menu.py, line 1154); a call that
\* raised stores nothing.
caller_stores(c, s, state) ==
    IF state \in {"", "RAISED"} THEN s
    ELSE IF c = "operator" \/ state # "OK" THEN settings_set(s, AuthStateKey, state)
    ELSE s

\* The state after a step of caller c's call, and the record of its return.
ApplyLogin(c, out) ==
    /\ settings' = caller_stores(c, out.am.settings, out.ret)
    /\ context' = out.am.context
    /\ auth_lock' = out.am.lock
    /\ manual_future' = out.am.manual
    /\ captcha_future' = out.am.captcha
    /\ sms_future' = out.am.sms
    /\ calls' = [calls EXCEPT ![c] = IF out.ret = "" THEN out.call ELSE NoCall]
    /\ last_return' =
           IF out.ret = "" THEN last_return
           ELSE [n |-> last_return.n + 1, caller |-> c, state |-> out.ret,
                 steps |-> out.call.steps, timed_out |-> out.call.timed_out,
                 path |-> out.path,
                 waiting |-> {d \in Callers \ {c} : calls[d].pc = "acquire"}]
    /\ LoginFrame

\* The calls made so far: those that returned and those under way.
LoginsBegun == last_return.n + Cardinality({c \in Callers : calls[c].pc # "idle"})

\* ensure_auth is called.
LoginCall(c) ==
    /\ calls[c].pc = "idle"
    /\ LoginsBegun < MaxLogins
    /\ ApplyLogin(c, ensure_auth_begin(Am, calls[c], login_url))

\* The caller gets the lock.
LoginAcquire(c, launch) ==
    /\ calls[c].pc = "acquire"
    /\ lock_free(auth_lock)
    /\ ApplyLogin(c, ensure_auth_locked(Am, calls[c], c, call_force(c), launch))

\* The preflight of line 86 ends.
LoginPreflight(c, outcome) ==
    /\ calls[c].pc = "preflight"
    /\ ApplyLogin(c, preflight_done(Am, calls[c], outcome))

\* _perform_login opens the login page.
LoginOpen(c, page) ==
    /\ calls[c].pc = "login"
    /\ ApplyLogin(c, perform_login_open(Am, calls[c], page))

\* _handle_recaptcha up to its first wait or its return.
LoginRecaptcha(c, shown, token, send_ok) ==
    /\ calls[c].pc = "captcha"
    /\ ApplyLogin(c, handle_recaptcha(Am, calls[c], owner_id, call_manual(c),
                                      captcha_provider, captcha_key, shown, token, send_ok))

\* The offer of manual help is not taken up within 180 seconds.
LoginManualTimeout(c) ==
    /\ calls[c].pc = "wait_manual"
    /\ manual_future.state = "pending"
    /\ ApplyLogin(c, manual_timeout(Am, calls[c]))

\* The offer of manual help has its answer.
LoginManualResume(c, send_ok) ==
    /\ calls[c].pc = "wait_manual"
    /\ manual_future.state = "done"
    /\ ApplyLogin(c, manual_resume(Am, calls[c], owner_id, send_ok))

\* The captcha request is not answered within 300 seconds.
LoginCaptchaTimeout(c) ==
    /\ calls[c].pc = "wait_captcha"
    /\ captcha_future.state = "pending"
    /\ ApplyLogin(c, captcha_timeout(Am, calls[c]))

\* The captcha request has its answer.
LoginCaptchaResume(c) ==
    /\ calls[c].pc = "wait_captcha"
    /\ captcha_future.state = "done"
    /\ ApplyLogin(c, captcha_resume(Am, calls[c]))

\* The credentials are submitted and the portal answers.
LoginCredentials(c, sms_needed, send_ok, after) ==
    /\ calls[c].pc = "submit"
    /\ ApplyLogin(c, submit_credentials(Am, calls[c], owner_id, sms_needed, send_ok, after))

\* No code arrives within 120 seconds.
LoginSmsTimeout(c) ==
    /\ calls[c].pc = "wait_sms"
    /\ sms_future.state = "pending"
    /\ ApplyLogin(c, sms_timeout(Am, calls[c]))

\* The SMS future has its result.
LoginSmsResume(c, after) ==
    /\ calls[c].pc = "wait_sms"
    /\ sms_future.state = "done"
    /\ ApplyLogin(c, sms_resume(Am, calls[c], after))

\* What no hook writes.
HookFrame ==
    UNCHANGED <<storeVars, configVars, auxVars, context, toggled, last_check, schedVars,
                sms_prompt, last_auth, sms_input, captcha_provider, captcha_key,
                auth_lock, calls, last_return, runVars>>

\* bot/menu.py handle_captcha_ready and handle_captcha_cancel.
HookResolveCaptcha(ok) ==
    /\ captcha_future' = resolve_captcha(captcha_future, ok)
    /\ UNCHANGED <<manual_future, sms_future>>
    /\ HookFrame

\* bot/menu.py handle_captcha_manual.
HookRequestManual ==
    /\ manual_future' = request_manual_captcha(manual_future)
    /\ UNCHANGED <<captcha_future, sms_future>>
    /\ HookFrame

\* submit_sms_code(code).
HookSubmitSms(code) ==
    /\ sms_future' = sms_code_submitted(sms_future, code)
    /\ UNCHANGED <<captcha_future, manual_future>>
    /\ HookFrame

\* bot/menu.py handle_owner_messages: a text of the operator.
HookOwnerMessage(text) ==
    /\ manual_future' = owner_message_handled(manual_future, sms_future, text).manual
    /\ sms_future' = owner_message_handled(manual_future, sms_future, text).sms
    /\ UNCHANGED captcha_future
    /\ HookFrame

\* The process is started anew: init_db finds the tables of the process before
\* it and seeds them again, the AuthManager is made anew.
Restart ==
    /\ context \/ \E c \in Callers : calls[c].pc # "idle"
    /\ context' = FALSE
    /\ auth_lock' = "none"
    /\ calls' = [c \in Callers |-> NoCall]
    /\ captcha_future' = NoFlag
    /\ manual_future' = NoFlag
    /\ sms_future' = NoFuture
    /\ watch_rows' = seed_rows(watch_rows, 1, 1)
    /\ pages' = [op \in PageOps |-> NoPage]
    /\ toggle_calls' = [t \in Threads |-> NoToggle]
    /\ UNCHANGED <<storeVars, configVars, toggled, last_check, schedVars, sms_prompt,
                   last_auth, sms_input, captcha_provider, captcha_key, last_return,
                   runVars>>

\* The texts the operator sends in SpecLogin.
LoginTexts == OperatorTexts \cup DoneWords \cup CancelWords

CaptchaConfigs == {<<"auto", TRUE>>, <<"auto", FALSE>>, <<"manual", FALSE>>}

InitLogin ==
    /\ InitStore
    /\ InitScheduler
    /\ InitAuthManager
    /\ login_url \in {"", PortalUrl}
    /\ owner_id \in {0, 1}
    /\ \E config \in CaptchaConfigs : captcha_provider = config[1] /\ captcha_key = config[2]

\* The steps of caller c's call after the call itself.
LoginProgress(c) ==
    \/ \E launch \in BOOLEAN : LoginAcquire(c, launch)
    \/ \E outcome \in {"OK", "NEED_AUTH", "RAISED"} : LoginPreflight(c, outcome)
    \/ \E page \in {"ok", "raise", "timeout", "error"} : LoginOpen(c, page)
    \/ \E shown, token, send_ok \in BOOLEAN : LoginRecaptcha(c, shown, token, send_ok)
    \/ LoginManualTimeout(c)
    \/ \E send_ok \in BOOLEAN : LoginManualResume(c, send_ok)
    \/ LoginCaptchaTimeout(c)
    \/ LoginCaptchaResume(c)
    \/ \E sms_needed, send_ok \in BOOLEAN, after \in {"OK", "NEED_AUTH"} :
           LoginCredentials(c, sms_needed, send_ok, after)
    \/ LoginSmsTimeout(c)
    \/ \E after \in {"OK", "NEED_AUTH"} : LoginSmsResume(c, after)

NextLogin ==
    \/ \E c \in Callers : LoginCall(c)
    \/ \E c \in Callers : LoginProgress(c)
    \/ \E ok \in BOOLEAN : HookResolveCaptcha(ok)
    \/ HookRequestManual
    \/ \E code \in OperatorTexts : HookSubmitSms(code)
    \/ \E text \in LoginTexts : HookOwnerMessage(text)
    \/ Restart
    \/ Tick

SpecLogin == InitLogin /\ [][NextLogin]_vars

\* The caller is inside the lock of ensure_auth: its preflight or its login
\* has begun and has not ended.
InAuth(c) == calls[c].pc \notin {"idle", "acquire"}

(***************************************************************************)
(* C11: at most one login/preflight sequence runs at a time: of the two    *)
(* callers of ensure_auth never both are between the start of their        *)
(* preflight or login and its end, and the one that is holds the lock.     *)
(***************************************************************************)
C11_OneLoginAtATime ==
    /\ \A c, d \in Callers : (InAuth(c) /\ InAuth(d)) => c = d
    /\ \A c \in Callers : InAuth(c) => auth_lock = c

\* The operator's login waits for its captcha while the scheduler's call
\* waits for the lock.
C11_Witness ==
    /\ calls["operator"].pc = "wait_captcha"
    /\ calls["scheduler"].pc = "acquire"
    /\ auth_lock = "operator"

\* Some call waits on the future: for the offer of manual help, for the
\* captcha, for the code.
WaitsForManual == \E c \in Callers : calls[c].pc = "wait_manual"

WaitsForCaptcha == \E c \in Callers : calls[c].pc = "wait_captcha"

WaitsForSms == \E c \in Callers : calls[c].pc = "wait_sms"

\* What C12 asks of a step: a future gets its result only while a call waits
\* on it, and a future that has its result keeps it.
C12_Step ==
    /\ (manual_future.state = "pending" /\ manual_future'.state = "done") => WaitsForManual
    /\ (captcha_future.state = "pending" /\ captcha_future'.state = "done") => WaitsForCaptcha
    /\ (sms_future.state = "pending" /\ sms_future'.state = "done") => WaitsForSms
    /\ (manual_future.state = "done" /\ manual_future'.state = "done")
           => manual_future' = manual_future
    /\ (captcha_future.state = "done" /\ captcha_future'.state = "done")
           => captcha_future' = captcha_future
    /\ (sms_future.state = "done" /\ sms_future'.state = "done") => sms_future' = sms_future

(***************************************************************************)
(* C12: a hook (resolve_captcha, submit_sms_code, request_manual_captcha,  *)
(* the operator's text) completes a wait at most once, and a hook call     *)
(* made while no wait on its future is outstanding changes no future.      *)
(***************************************************************************)
C12_HookCompletesOnlyOutstandingWait == [][C12_Step]_vars

\* What C13, as stated, asks of a step in which ensure_auth returns.
C13_StepAsStated ==
    last_return'.n > last_return.n =>
        /\ (last_return'.state = "OK" /\ last_return'.path = "login")
               => settings_get(settings', AuthExpKey) = isoformat(clock' + auth_valid_hours)
        /\ last_return'.state \notin {"OK", "RAISED"}
               => settings_get(settings', AuthExpKey) \in {NULL, ""}

(***************************************************************************)
(* C13, as stated: when ensure_auth returns OK after a full login the      *)
(* stored expiry is the time of the return plus the validity window; when  *)
(* it returns any other state, the early ERROR returns included, the       *)
(* stored expiry is empty.                                                 *)
(***************************************************************************)
C13_ExpiryFollowsEveryReturn == [][C13_StepAsStated]_vars

\* What C13, amended, asks of a step in which ensure_auth returns.
C13_StepAmended ==
    last_return'.n > last_return.n =>
        /\ (last_return'.state = "OK" /\ last_return'.path = "login")
               => settings_get(settings', AuthExpKey) = isoformat(clock' + auth_valid_hours)
        /\ (last_return'.state \notin {"OK", "RAISED"} /\ last_return'.path = "login")
               => settings_get(settings', AuthExpKey) = ""
        /\ last_return'.path \in {"no_url", "no_context"}
               => /\ last_return'.state = "ERROR"
                  /\ settings_get(settings', AuthExpKey) = settings_get(settings, AuthExpKey)
                  /\ settings_get(settings', AuthStateKey) = "ERROR"

(***************************************************************************)
(* C13, amended: when ensure_auth returns OK after a full login the stored *)
(* expiry is the time of the return plus the validity window; when a login *)
(* was attempted and returns any other state the stored expiry is empty;   *)
(* the early ERROR returns (no login URL, no browser context) leave the    *)
(* stored expiry as it was, and the caller stores ERROR as the state.      *)
(***************************************************************************)
C13_ExpiryFollowsLogin == [][C13_StepAmended]_vars

\* A login that waited for the code in vain returned NEED_SMS after an
\* earlier call had returned, and the expiry is empty.
C13_Witness ==
    /\ last_return.n >= 2
    /\ last_return.path = "login"
    /\ last_return.timed_out
    /\ last_return.state = "NEED_SMS"
    /\ settings_get(settings, AuthExpKey) = ""

(***************************************************************************)
(* C15: ensure_auth never raises to its caller: no call ends with an       *)
(* exception, whatever fails in the preflight or the login.                *)
(***************************************************************************)
C15_EnsureAuthNeverRaises == last_return.state # "RAISED"

\* The timers of asyncio.wait_for run down and the event loop resumes a call
\* whose await is over: a step of a call that stays possible is taken.
FairLogin == \A c \in Callers : WF_vars(LoginProgress(c))

SpecLoginFair == SpecLogin /\ FairLogin

\* The call of the caller is suspended in one of the three waits.
Suspended(c) == calls[c].pc \in {"wait_manual", "wait_captcha", "wait_sms"}

next_enabled(cats, i) ==
    IF \E n \in DOMAIN CategoryKeys : n > i /\ cats[CategoryKeys[n]].enabled
    THEN CHOOSE n \in DOMAIN CategoryKeys :
             /\ n > i
             /\ cats[CategoryKeys[n]].enabled
             /\ \A m \in DOMAIN CategoryKeys :
                    (m > i /\ cats[CategoryKeys[m]].enabled) => n <= m
    ELSE 0

\* The category the check in progress is about.
run_category(job, r) == IF job.kind = "full" THEN CategoryKeys[r.i] ELSE job.category

\* The job has ended: how is "done", "check_raised" or "send_raised".
run_ended(r, how) == [NoRun EXCEPT !.job = r.job, !.ended = how]

\* _runner, lines 98 to 101, and _process_full_run, lines 111 to 118: the job
\* begins; run_id is the id create_run gives a full run.
run_begun(job, cats, run_id) ==
    IF job.kind = "full"
    THEN [NoRun EXCEPT !.job = job.created_at, !.run_id = run_id,
                       !.i = next_enabled(cats, 0),
                       !.phase = IF next_enabled(cats, 0) = 0 THEN "notify" ELSE "auth"]
    ELSE [NoRun EXCEPT !.job = job.created_at, !.phase = "auth"]

\* _process_full_run, lines 120 to 125, on the counts the job keeps.
run_counts(r, checked) ==
    count_check([st |-> checked.st, ok |-> r.ok, errors |-> r.errors,
                 findings |-> r.findings, raised |-> FALSE], checked)

\* A check has returned or raised: the loop of _process_full_run goes to the
\* next enabled category or to line 126, the category branch of _runner to
\* line 102; an exception leaves both.
run_checked(r, job, cats, checked) ==
    IF checked.raised THEN run_ended(r, "check_raised")
    ELSE IF job.kind = "full"
    THEN [r EXCEPT !.ok = run_counts(r, checked).ok,
                   !.errors = run_counts(r, checked).errors,
                   !.findings = run_counts(r, checked).findings,
                   !.check_run = 0,
                   !.i = next_enabled(cats, r.i),
                   !.phase = IF next_enabled(cats, r.i) = 0 THEN "notify" ELSE "auth"]
    ELSE [r EXCEPT !.check_run = 0, !.phase = "notify"]

\* Mutant of notifier_ready: the owner id is not looked at.
notifier_ready_without_owner(pending, owner) == pending # <<>>

\* _send_notifications, line 348, with self._bot set: there is something to
\* send and someone to send it to.
notifier_ready(pending, owner) == pending # <<>> /\ owner # 0

\* _send_notifications, lines 347 to 350: the list is read, and the loop
\* begins or the call returns 0.
notify_begun(r, pending, owner) ==
    IF notifier_ready(pending, owner)
    THEN [r EXCEPT !.phase = "send", !.pending = pending, !.j = 1]
    ELSE [r EXCEPT !.phase = "finish"]

\* Mutant of after_send: an exception of send_message is swallowed and the
\* loop goes on to line 383.
after_send_swallowed(r, ok) == [r EXCEPT !.phase = "mark"]

\* _send_notifications, lines 377 to 382: send_message returns (ok) and line
\* 383 is next, or it raises and the exception leaves _send_notifications,
\* its caller and _runner.
after_send(r, ok) ==
    IF ok THEN [r EXCEPT !.phase = "mark"] ELSE run_ended(r, "send_raised")

\* _send_notifications, lines 383 to 385: the next item, or the return.
after_mark(r) ==
    IF r.j < Len(r.pending) THEN [r EXCEPT !.j = @ + 1, !.phase = "send"]
    ELSE [r EXCEPT !.pending = <<>>, !.j = 0, !.phase = "finish"]

\* The runner is at that phase of the job it took.
InRun(phase) ==
    /\ task.pc = "process"
    /\ run.job = task.job.created_at
    /\ run.phase = phase

\* What a step of the job leaves alone.
RunFrame == UNCHANGED <<configVars, auxVars, loginVars, toggled, last_check, authVars>>

\* _runner: the job goes on as r says. When it has ended the lock is released
\* (line 97); task_done and the next get follow a job that returned (lines
\* 104 and 95), and an exception ends the runner's task (line 105 catches
\* CancelledError only).
RunnerStep(r) ==
    /\ run' = r
    /\ task' = IF r.phase # "idle" THEN task
               ELSE [pc |-> IF r.ended = "done" THEN "get" ELSE "done", job |-> NoJob]
    /\ lock' = (r.phase # "idle")
    /\ active' = IF r.phase # "idle" THEN active ELSE active \ {task.job.created_at}
    /\ UNCHANGED <<queue, running, periodic_task, taken, created>>

\* _runner, lines 98 to 101: the processing of the job begins; a full run
\* creates its record (_process_full_run, line 111).
RunBegin ==
    /\ task.pc = "process"
    /\ run.job # task.job.created_at
    /\ SetSt(IF task.job.kind = "full"
             THEN [St EXCEPT !.clock = @ + 1, !.runs = create_run(@, clock + 1, "all")]
             ELSE St)
    /\ RunnerStep(run_begun(task.job, categories, Len(runs) + 1))
    /\ delivered' = delivered
    /\ resent' = resent
    /\ RunFrame

\* A check has ended: its tables, and where the job goes.
RunChecked(checked) ==
    /\ SetSt(checked.st)
    /\ RunnerStep(run_checked(run, task.job, categories, checked))
    /\ delivered' = delivered
    /\ resent' = resent
    /\ RunFrame

\* _process_single_category, lines 142 to 157: auth is what ensure_auth did.
\* A state that is not OK ends the check; with OK the run is created and the
\* page is opened next.
RunAuthDone(auth, cat, record_run, env) ==
    IF auth.state # "OK"
    THEN RunChecked(check_after_auth(auth, cat, record_run, env))
    ELSE /\ SetSt(check_started(auth, cat, record_run))
         /\ RunnerStep([run EXCEPT !.phase = "page",
                                   !.check_run = IF record_run THEN Len(auth.st.runs) + 1
                                                 ELSE 0])
         /\ delivered' = delivered
         /\ resent' = resent
         /\ RunFrame

\* _process_single_category, lines 140 to 157.
RunAuth(env) ==
    /\ InRun("auth")
    /\ RunAuthDone(ensure_auth_call([St EXCEPT !.clock = @ + 1], login_url, FALSE, env),
                   run_category(task.job, run), task.job.kind = "category", env)

\* _process_single_category, lines 159 to 275: the page is opened and read.
RunPage(page) ==
    /\ InRun("page")
    /\ RunChecked(check_in_run(St, "OK", run_category(task.job, run), run.check_run,
                               [page |-> page]))

\* _send_notifications, lines 347 to 350.
RunNotify ==
    /\ InRun("notify")
    /\ SetSt(St)
    /\ RunnerStep(notify_begun(run, get_pending_findings(findings), owner_id))
    /\ delivered' = delivered
    /\ resent' = resent
    /\ RunFrame

\* _send_notifications, lines 351 to 382: the message of one finding is sent;
\* delivered keeps the findings send_message returned for.
RunSend(ok) ==
    /\ InRun("send")
    /\ SetSt(St)
    /\ RunnerStep(after_send(run, ok))
    /\ delivered' = IF ok THEN delivered \cup {run.pending[run.j]} ELSE delivered
    /\ resent' = IF ok /\ run.pending[run.j] \in delivered
               THEN resent \cup {run.pending[run.j]} ELSE resent
    /\ RunFrame

\* _send_notifications, line 383: mark_finding_notified.
RunMark ==
    /\ InRun("mark")
    /\ SetSt([St EXCEPT !.findings = mark_finding_notified(@, run.pending[run.j], clock)])
    /\ RunnerStep(after_mark(run))
    /\ delivered' = delivered
    /\ resent' = resent
    /\ RunFrame

\* _process_full_run, lines 129 to 131, and _runner, line 103: the full run's
\* record is finished and the views are refreshed.
RunFinish ==
    /\ InRun("finish")
    /\ SetSt(IF task.job.kind = "full"
             THEN [St EXCEPT !.runs = finish_run(@, run.run_id, run.ok, run.errors,
                                                 run.findings, clock)]
             ELSE St)
    /\ RunnerStep(run_ended(run, "done"))
    /\ delivered' = delivered
    /\ resent' = resent
    /\ RunFrame

\* What ensure_auth meets in SpecRun: the browser launches; the preflight and
\* the login succeed or not.
RunAuthEnvs ==
    [launch : {TRUE}, preflight : {"OK", "NEED_AUTH"}, login : {"OK", "NEED_SMS"},
     page : {EmptyPage}]

\* The pages of SpecRun: one date, two dates, and every failure.
RunPages ==
    {[kind |-> "loaded", http_status |-> "200", text |-> "",
      labels |-> <<label_text("cyr:Koshitse", "14.3.2025")>>],
     [kind |-> "loaded", http_status |-> "200", text |-> "",
      labels |-> <<label_text("cyr:Koshitse", "2.4.2025"),
                   label_text("cyr:Nitra", "14.3.2025")>>]}
        \cup FailedPages

\* Both categories are enabled, as set_category_enabled leaves them.
InitRun ==
    /\ InitScheduler
    /\ InitAuthManager
    /\ DefaultCaptcha
    /\ categories = [c \in Categories |->
           set_category_enabled_store(seed_categories, seed_watches,
               [key \in SettingsKeys |-> <<>>], c, TRUE).categories[c]]
    /\ watches = seed_watches
    /\ watch_rows = seed_rows(<<>>, 1, 1)
    /\ toggle_calls = [t \in Threads |-> NoToggle]
    /\ settings = [key \in SettingsKeys |-> <<>>]
    /\ findings = <<>>
    /\ diagnostics = <<>>
    /\ runs = <<>>
    /\ clock = 0
    /\ context = FALSE
    /\ toggled = [c \in Categories |-> NoTrip]
    /\ last_check = NoCheck
    /\ login_url = PortalUrl
    /\ owner_id \in {0, 1}

\* The number of jobs a behaviour of SpecRun makes.
MaxRunJobs == 2

NextRun ==
    \/ created < MaxRunJobs /\ Start
    \/ Stop
    \/ created < MaxRunJobs /\ enqueue_full_check
    \/ created < MaxRunJobs /\ \E cat \in CheckedCategories : enqueue_category_check(cat)
    \/ created < MaxRunJobs /\ Periodic
    \/ RunnerGet
    \/ RunnerAcquire
    \/ RunBegin
    \/ \E env \in RunAuthEnvs : RunAuth(env)
    \/ \E page \in RunPages : RunPage(page)
    \/ RunNotify
    \/ \E ok \in BOOLEAN : RunSend(ok)
    \/ RunMark
    \/ RunFinish

SpecRun == InitRun /\ [][NextRun]_vars

\* C16: a finding's notified-at is set only after send_message returned for
\* it; a finding whose message was not sent, or whose send raised, keeps
\* notified_at empty and stays pending.
C16_NotifiedOnlyAfterSend ==
    \A id \in DOMAIN findings : findings[id].notified_at # 0 => id \in delivered

\* One finding was sent and marked, the send of the next one raised and that
\* finding is still pending.
C16_Witness ==
    /\ run.ended = "send_raised"
    /\ \E id \in DOMAIN findings : findings[id].notified_at # 0 /\ id \in delivered
    /\ \E id \in DOMAIN findings :
           /\ id \notin delivered
           /\ findings[id].notified_at = 0
           /\ get_pending_findings(findings) # <<>>

\* With owner id 0 a step keeps every finding there is as it is.
C17_Step ==
    owner_id = 0 =>
        \A id \in DOMAIN findings : id \in DOMAIN findings' /\ findings'[id] = findings[id]

\* C17: with owner id 0 notification dispatch sends nothing and changes no
\* finding: no message is delivered, no finding is marked, and every finding
\* stays as it was recorded.
C17_NoOwnerNothingSent ==
    /\ [](owner_id = 0 =>
            /\ delivered = {}
            /\ \A id \in DOMAIN findings : findings[id].notified_at = 0)
    /\ [][C17_Step]_vars

\* With owner id 0 a job has run to its end, notification dispatch included,
\* and the findings are all pending.
C17_Witness ==
    /\ owner_id = 0
    /\ run.ended = "done"
    /\ task.pc = "get"
    /\ findings # <<>>
    /\ Len(get_pending_findings(findings)) = Len(findings)

\* A send that does not lead to line 383 leaves the findings as they are and
\* the runner at its job.
C18_Step ==
    (InRun("send") /\ run' # run /\ run'.phase # "mark") =>
        (findings' = findings /\ task'.pc = "process")

\* C18: when the delivery of a finding fails the finding stays pending and
\* the runner lives on, so that the next job runs and dispatches it again.
C18_FailedSendIsRetried == [][C18_Step]_vars

\* The check of a category of a full run ends: the runner stays at the job,
\* the category is counted, and the loop is at the next enabled category or
\* at the notifications.
C19_Step ==
    (/\ task.pc = "process"
     /\ task.job.kind = "full"
     /\ run.job = task.job.created_at
     /\ run.phase \in {"auth", "page"}
     /\ run' # run
     /\ run'.phase # "page") =>
        (/\ task'.pc = "process"
         /\ run'.phase \in {"auth", "notify"}
         /\ run'.i = next_enabled(categories, run.i)
         /\ run'.ok + run'.errors = run.ok + run.errors + 1)

\* C19: however the check of one category of a full run ends (auth failure,
\* timeout, an exception of the scrape, a page that cannot be opened), the
\* run goes on with the remaining enabled categories and counts the category.
C19_CheckFailureKeepsRun == [][C19_Step]_vars

\* stop() while the page of a check is open: the runner stays at the check.
C20_Step ==
    (InRun("page") /\ running /\ ~running') => (task'.pc = "process" /\ lock')

\* C20: stop() does not end a check that is in flight: the runner's task
\* stays at the job it processes, holding the lock, and the check goes on.
C20_StopLetsCheckFinish == [][C20_Step]_vars

(***************************************************************************)
(* SpecSeed: the watches table through toggles, checks and restarts        *)
(***************************************************************************)

\* The number of category checks a behaviour of SpecSeed makes.
MaxSeedChecks == 2

\* The checks of SpecSeed: the login is refused (the watches are reset), the
\* page has no office, or its load times out.
SeedEnvs ==
    {e \in CheckEnvs : e.launch /\ e.preflight = "OK" /\ e.page.kind \in {"loaded", "timeout"}
                       /\ e.page.labels = <<>>}

\* A category job of the runner, in SpecSeed.
SeedCheck ==
    /\ last_check.n < MaxSeedChecks
    /\ \E cat \in CheckedCategories, env \in SeedEnvs : CategoryJob(cat, env, 0)

NextSeed ==
    \/ Restart
    \/ ToggleCategory
    \/ ToggleWatch
    \/ ToggleAllWatches
    \/ SeedCheck

SpecSeed == InitToggles /\ [][NextSeed]_vars

\* C21: the watches table has exactly one row for each pair of a category and
\* a city, under the id the seeding gave it, whatever toggles, checks, resets
\* and repeated initialisations have happened.
C21_OneWatchPerPair ==
    /\ \A c \in Categories, k \in Cities :
           Cardinality({i \in DOMAIN watch_rows : watch_rows[i] = watch_row(c, k)}) = 1
    /\ DOMAIN watches = DOMAIN watch_rows
    /\ \A id \in DOMAIN watch_rows :
           watch_rows[id] = watch_row(watches[id].category_key, watches[id].city_key)

\* A check has opened the browser, watches were reset and toggled, and the
\* process has been started again since: init_db has seeded a second time.
C21_Witness ==
    /\ last_check.n > 0
    /\ settings_get(settings, AuthStateKey) = "OK"
    /\ ~context
    /\ \E id \in WatchIds : watches[id].enabled
    /\ \E id \in WatchIds : watches[id].status # "PAUSED"

\* set_category_enabled(c, on) on the tables a call before it left.
toggle_again(first, c, on) ==
    set_category_enabled_store(first.categories, first.watches, first.settings, c, on)

\* The tables after the operator has pressed the toggle of category c twice:
\* handle_toggle_category sets the flag to its negation each time.
toggled_twice(cats, ws, s, c) ==
    toggle_again(set_category_enabled_store(cats, ws, s, c, ~cats[c].enabled),
                 c, cats[c].enabled)

\* C22: from any state the toggles reach, toggling a category twice in a row
\* leaves the category's flag and the enabled flag of each of its watches as
\* they were.
C22_ToggleTwiceIsNoOp ==
    \A c \in Categories :
        /\ toggled_twice(categories, watches, settings, c).categories[c].enabled
               = categories[c].enabled
        /\ \A id \in WatchIds :
               watches[id].category_key = c =>
                   toggled_twice(categories, watches, settings, c).watches[id].enabled
                       = watches[id].enabled

\* Two findings of one watch with no finding of that watch between them have
\* different values.
ConsecutiveFindingsDiffer ==
    \A i, j \in DOMAIN findings :
        (/\ i < j
         /\ findings[i].watch_id = findings[j].watch_id
         /\ \A k \in DOMAIN findings :
                (i < k /\ k < j) => findings[k].watch_id # findings[i].watch_id) =>
            findings[i].found_value # findings[j].found_value

\* C23 as it is stated: consecutive findings of one watch have different
\* values and no finding is sent more than once.
C23_EachFindingSentOnce == ConsecutiveFindingsDiffer /\ resent = {}

\* A message is sent only for a finding that is pending.
C23_Step ==
    \A id \in DOMAIN findings :
        (id \in (delivered' \ delivered) \cup (resent' \ resent)) =>
            findings[id].notified_at = 0

\* C23, amended: consecutive findings of one watch have different values, and
\* a finding whose notified-at is set is never sent again; a finding is sent a
\* second time only while it is still pending.
C23_MarkedFindingNeverResent == []ConsecutiveFindingsDiffer /\ [][C23_Step]_vars

\* A watch has two findings, and a finding was sent, left pending by a stop
\* before its mark, sent again by the next job and marked then.
C23_Witness ==
    /\ \E i, j \in DOMAIN findings : i < j /\ findings[i].watch_id = findings[j].watch_id
    /\ \E id \in resent : findings[id].notified_at # 0

\* The check of this step ended because ensure_auth did not return OK.
AuthFailedCheck ==
    /\ last_check'.n = last_check.n + 1
    /\ last_check'.scraped = "no"
    /\ last_check'.auth \notin {"OK", "RAISED"}

C24_Step ==
    AuthFailedCheck =>
        /\ categories'[last_check'.cat].status = last_check'.auth
        /\ \A k \in Cities :
               LET id == WatchId(last_check'.cat, k)
               IN /\ watches'[id].status = last_check'.auth
                  /\ watches'[id].last_seen_value = watches[id].last_seen_value
        /\ Len(findings') = Len(findings)
        /\ last_check'.updates = no_updates

\* C24: when ensure_auth returns a state other than OK at the start of a
\* category check, the category and every watch of it get that state as
\* status and the check stops: the page of the category is not read, no last
\* seen value changes and no finding is created in the check.
C24_AuthFailureStopsCheck == [][C24_Step]_vars

\* A check stopped on NEED_SMS after a check that had found a date: the
\* watch has the state as status and still has its last seen value.
C24_Witness ==
    /\ last_check.scraped = "no"
    /\ last_check.auth = "NEED_SMS"
    /\ \E k \in Cities :
           /\ watches[WatchId(last_check.cat, k)].last_seen_value # NULL
           /\ watches[WatchId(last_check.cat, k)].status = "NEED_SMS"
    /\ Len(findings) > 0

\* C25: in a check that read the page, every watch of the category whose
\* extracted value (a date or no date) differs from its last seen value
\* before the check has a finding of that check; a watch that had seen
\* nothing and for which a date was extracted has status OK, the date as
\* last seen value and exactly one new pending finding with the date.
C25_FindingForEveryChange ==
    (last_check.n > 0 /\ last_check.scraped = "yes") =>
        \A k \in Cities :
            LET id == WatchId(last_check.cat, k)
                date == last_check.updates[k].date_str
                made == FindingsAt(id, last_check.at)
            IN /\ date # last_check.before[k] => made # {}
               /\ (last_check.before[k] = NULL /\ date # NULL) =>
                      /\ watches[id].status = "OK"
                      /\ watches[id].last_seen_value = date
                      /\ Cardinality(made) = 1
                      /\ \A i \in made : findings[i].found_value = date

\* get_context (flow.py, lines 140 to 142) in the scrape of a check whose
\* ensure_auth returned OK (scheduler.py, line 159) and in
\* capture_portal_error (flow.py, line 884): the call waits for the lock.
PageCall(op) ==
    /\ pages[op].pc = "idle"
    /\ op = "scrape" =>
           /\ calls["scheduler"].pc = "idle"
           /\ last_return.caller = "scheduler"
           /\ last_return.state = "OK"
           /\ last_return.n > pages[op].after
    /\ pages' = [pages EXCEPT ![op] = [pc |-> "context", after |-> last_return.n]]
    /\ UNCHANGED <<storeVars, configVars, context, toggled, last_check, runVars, schedVars,
                   authVars, loginVars, watch_rows, toggle_calls>>

\* The operation has the lock and _ensure_context has answered. get_context
\* releases the lock when it returns; capture_category_screenshot keeps it
\* (flow.py, line 111). Without a context the operation returns None;
\* otherwise new_page and goto follow.
PageOpen(op, launch) ==
    /\ pages[op].pc = "context"
    /\ lock_free(auth_lock)
    /\ context' = (context \/ launch)
    /\ pages' = [pages EXCEPT ![op].pc = IF context' THEN "open" ELSE "idle"]
    /\ auth_lock' = IF op = "category" /\ context' THEN op ELSE auth_lock
    /\ UNCHANGED <<storeVars, configVars, toggled, last_check, runVars, schedVars,
                   sms_future, sms_prompt, last_auth, sms_input, calls, captcha_future,
                   manual_future, captcha_provider, captcha_key, last_return,
                   watch_rows, toggle_calls>>

\* The page is closed: the end of the scrape (scheduler.py, line 275), of
\* capture_category_screenshot (flow.py, lines 136 to 138, which also leaves
\* the lock) and of capture_portal_error (flow.py, line 900).
PageClose(op) ==
    /\ pages[op].pc = "open"
    /\ pages' = [pages EXCEPT ![op].pc = "idle"]
    /\ auth_lock' = IF op = "category" THEN "none" ELSE auth_lock
    /\ UNCHANGED <<storeVars, configVars, context, toggled, last_check, runVars, schedVars,
                   sms_future, sms_prompt, last_auth, sms_input, calls, captcha_future,
                   manual_future, captcha_provider, captcha_key, last_return,
                   watch_rows, toggle_calls>>

\* The calls of ensure_auth in SpecBrowse.
MaxBrowseLogins == 2

\* The scheduler calls ensure_auth at the start of a check, not during its scrape.
BrowseLoginCall(c) ==
    /\ c = "scheduler" => pages["scrape"].pc = "idle"
    /\ LoginsBegun < MaxBrowseLogins
    /\ LoginCall(c)

NextBrowse ==
    \/ \E c \in Callers : BrowseLoginCall(c)
    \/ \E c \in Callers : LoginProgress(c)
    \/ \E ok \in BOOLEAN : HookResolveCaptcha(ok)
    \/ HookRequestManual
    \/ \E code \in OperatorTexts : HookSubmitSms(code)
    \/ \E op \in PageOps : PageCall(op)
    \/ \E op \in PageOps, launch \in BOOLEAN : PageOpen(op, launch)
    \/ \E op \in PageOps : PageClose(op)

SpecBrowse == InitLogin /\ [][NextBrowse]_vars

\* The portal browsing operations in flight: the operations with an open
\* page, and the operator's re-authentication once it is inside the lock.
InFlight ==
    {op \in PageOps : pages[op].pc = "open"}
        \cup (IF InAuth("operator") THEN {"reauth"} ELSE {})

\* C26: at most one portal browsing operation is in flight at any time: a
\* scrape of the scheduler, the operator's re-authentication, a category
\* screenshot and a portal-error screenshot never have pages of the shared
\* browsing context open together.
C26_OneBrowsingOperation == Cardinality(InFlight) <= 1

(***************************************************************************)
(* SpecToggle: set_category_enabled transaction by transaction             *)
(***************************************************************************)

\* What a step of set_category_enabled leaves alone besides the tables.
ToggleFrame ==
    UNCHANGED <<findings, diagnostics, runs, clock, configVars, context, toggled,
                last_check, runVars, schedVars, authVars, loginVars, watch_rows, pages>>

\* set_category_enabled, lines 259 and 260: the first transaction writes the
\* flag of the category.
ToggleFlag(t, key, on) ==
    /\ toggle_calls[t].pc = "idle"
    /\ categories' = [categories EXCEPT ![key].enabled = on]
    /\ toggle_calls' = [toggle_calls EXCEPT ![t] =
           [NoToggle EXCEPT !.pc = IF on THEN "snapshot" ELSE "watches",
                            !.key = key, !.on = on]]
    /\ UNCHANGED <<watches, settings>>
    /\ ToggleFrame

\* Lines 263 to 265: settings_get reads the snapshot. Without one the call
\* returns; with ids the restore follows, otherwise the delete.
ToggleSnapshot(t) ==
    LET call == toggle_calls[t]
        snapshot == settings_get(settings, SnapshotKey(call.key))
    IN /\ call.pc = "snapshot"
       /\ toggle_calls' = [toggle_calls EXCEPT ![t] =
              IF snapshot = NULL \/ snapshot = "" THEN NoToggle
              ELSE [call EXCEPT !.ids = parse_snapshot(snapshot),
                                !.pc = IF parse_snapshot(snapshot) # {} THEN "restore"
                                       ELSE "delete"]]
       /\ UNCHANGED <<categories, watches, settings>>
       /\ ToggleFrame

\* Lines 266 to 272: the watches of the snapshot are enabled.
ToggleRestore(t) ==
    /\ toggle_calls[t].pc = "restore"
    /\ watches' = [id \in WatchIds |->
           IF id \in toggle_calls[t].ids THEN [watches[id] EXCEPT !.enabled = TRUE]
           ELSE watches[id]]
    /\ toggle_calls' = [toggle_calls EXCEPT ![t].pc = "delete"]
    /\ UNCHANGED <<categories, settings>>
    /\ ToggleFrame

\* Line 273: the snapshot is deleted, and the call returns.
ToggleDelete(t) ==
    /\ toggle_calls[t].pc = "delete"
    /\ settings' = settings_delete(settings, SnapshotKey(toggle_calls[t].key))
    /\ toggle_calls' = [toggle_calls EXCEPT ![t] = NoToggle]
    /\ UNCHANGED <<categories, watches>>
    /\ ToggleFrame

\* Lines 275 and 276: the watches of the category are read.
ToggleWatches(t) ==
    LET enabled_ids == snapshot_ids(watches, toggle_calls[t].key)
    IN /\ toggle_calls[t].pc = "watches"
       /\ toggle_calls' = [toggle_calls EXCEPT ![t].enabled_ids = enabled_ids,
                                               ![t].pc = IF enabled_ids # <<>> THEN "store"
                                                         ELSE "disable"]
       /\ UNCHANGED <<categories, watches, settings>>
       /\ ToggleFrame

\* Lines 277 and 278: the snapshot is written.
ToggleStore(t) ==
    /\ toggle_calls[t].pc = "store"
    /\ settings' = settings_set(settings, SnapshotKey(toggle_calls[t].key),
                                join_ids(toggle_calls[t].enabled_ids))
    /\ toggle_calls' = [toggle_calls EXCEPT ![t].pc = "disable"]
    /\ UNCHANGED <<categories, watches>>
    /\ ToggleFrame

\* Lines 279 to 283: the watches of the category are disabled, and the call
\* returns.
ToggleDisable(t) ==
    /\ toggle_calls[t].pc = "disable"
    /\ watches' = [id \in WatchIds |->
           IF watches[id].category_key = toggle_calls[t].key
           THEN [watches[id] EXCEPT !.enabled = FALSE] ELSE watches[id]]
    /\ toggle_calls' = [toggle_calls EXCEPT ![t] = NoToggle]
    /\ UNCHANGED <<categories, settings>>
    /\ ToggleFrame

\* The category of SpecToggle.
ToggledCategories == {"TRVALY_5Y"}

NextToggle ==
    \/ \E t \in Threads, key \in ToggledCategories, on \in BOOLEAN : ToggleFlag(t, key, on)
    \/ \E t \in Threads : ToggleSnapshot(t)
    \/ \E t \in Threads : ToggleRestore(t)
    \/ \E t \in Threads : ToggleDelete(t)
    \/ \E t \in Threads : ToggleWatches(t)
    \/ \E t \in Threads : ToggleStore(t)
    \/ \E t \in Threads : ToggleDisable(t)
    \/ \E key \in ToggledCategories, k \in Cities, on \in BOOLEAN : enable_watch(key, k, on)
    \/ \E key \in ToggledCategories, on \in BOOLEAN : enable_all_watches(key, on)

SpecToggle == InitToggles /\ [][NextToggle]_vars

\* A step that writes the flag of a category leaves the watches and the
\* snapshot as the whole of set_category_enabled leaves them.
C27_Step ==
    \A key \in Categories :
        categories'[key].enabled # categories[key].enabled =>
            LET after == set_category_enabled_store(categories, watches, settings, key,
                                                    categories'[key].enabled)
            IN watches' = after.watches /\ settings' = after.settings

\* C27: the write of a category's enabled flag and the snapshot (on disable)
\* or the restore (on enable) of its watches' enabled flags are one atomic
\* unit: no other store operation finds the flag changed with the watches and
\* the snapshot not yet updated.
C27_ToggleIsAtomic == [][C27_Step]_vars

\* The statuses of a watch.
WatchStatuses == {"PAUSED", "OK", "NO_DATE", "ERROR", "NEED_AUTH", "NEED_VPN"}

\* C28: in every reachable state the status of every watch is one of PAUSED,
\* OK, NO_DATE, ERROR, NEED_AUTH and NEED_VPN, whatever ensure_auth returned
\* in the checks so far.
C28_WatchStatusInSet == \A id \in WatchIds : watches[id].status \in WatchStatuses

\* C29: every failed category check (ensure_auth did not return OK, the page
\* timed out or another exception was raised while it was read) appended one
\* diagnostic per watch of the category.
C29_FailureRecordsDiagnostics ==
    (/\ last_check.n > 0
     /\ last_check.scraped \in {"no", "timeout", "error"}
     /\ last_check.auth # "RAISED") =>
        \A k \in Cities :
            Cardinality(DiagnosticsAt(last_check.cat, k, last_check.at)) = 1

SmsAttemptsBounded ==
    /\ sms_prompt.pc = "wait" => sms_prompt.remaining \in 1..3
    /\ sms_prompt.ended = "limit" => sms_prompt.remaining = 1

\* The resumption with a code of six digits ends the prompt with the code,
\* and the login returns what the portal says after the code was entered.
C30_Step ==
    (/\ sms_prompt.pc = "wait"
     /\ sms_future.state = "done"
     /\ six_digits(sms_future.result)
     /\ sms_prompt' # sms_prompt) =>
        /\ sms_prompt'.pc = "idle"
        /\ sms_prompt'.ended = "code"
        /\ last_auth'.state \in {"OK", "NEED_AUTH"}

\* The prompt ends without a code only by its step for the timeout, at any
\* attempt, or by its step for an invalid code at the last attempt; both
\* return NEED_SMS.
C30_AbandonStep ==
    (sms_prompt.pc = "wait" /\ sms_prompt'.ended \in {"timeout", "limit"}) =>
        /\ last_auth'.state = "NEED_SMS"
        /\ sms_prompt'.ended = "limit" =>
               (sms_future.state = "done" /\ sms_prompt.remaining = 1)
        /\ sms_prompt'.ended = "timeout" => sms_future.state = "pending"

LoginBegan(steps) == \E i \in DOMAIN steps : steps[i] = "login"

\* A caller that waited for the lock while the last call ran its login does
\* not begin a login of its own when it gets the lock.
C31_Step ==
    \A c \in Callers :
        (/\ calls[c].pc = "acquire"
         /\ c \in last_return.waiting
         /\ LoginBegan(last_return.steps)) =>
            ~LoginBegan(calls'[c].steps)

\* C31: concurrent callers of ensure_auth await the same operation: a caller
\* that arrives while a login is in progress gets the outcome of that login
\* and starts no second login of its own after the first has ended.
C31_WaiterStartsNoSecondLogin == [][C31_Step]_vars

\* The findings created since the run began.
FindingsSince(fs, at) == {i \in DOMAIN fs : fs[i].found_at >= at}

\* The run is finished by this step.
FinishedNow(id) ==
    /\ id \in DOMAIN runs
    /\ runs[id].finished_at = 0
    /\ runs'[id].finished_at # 0

C32_Step ==
    \A id \in DOMAIN runs' :
        FinishedNow(id) =>
            /\ runs'[id].findings = Cardinality(FindingsSince(findings', runs[id].started_at))
            /\ IF runs[id].scope = "all"
               THEN /\ runs'[id].ok + runs'[id].errors =
                           Cardinality({c \in Categories : categories[c].enabled})
                    /\ runs'[id].ok =
                           Cardinality({c \in Categories :
                               categories'[c].enabled /\ categories'[c].status = "OK"})
               ELSE runs'[id].ok + runs'[id].errors = 1

\* C32: a finished full run has ok + errors equal to the number of enabled
\* categories, ok equal to the number of them whose check returned OK (which
\* left the category with status OK) and findings equal to the number of
\* findings created during the run; a finished category run has
\* ok + errors = 1.
C32_RunCountsAddUp == [][C32_Step]_vars

\* A finished full run with one category checked OK, one failed and a
\* finding created in it.
C32_Witness ==
    \E id \in DOMAIN runs :
        /\ runs[id].scope = "all"
        /\ runs[id].finished_at # 0
        /\ runs[id].ok = 1
        /\ runs[id].errors = 1
        /\ runs[id].findings = 1

(***************************************************************************)
(* SpecContext: _ensure_context with the launch of the browser as a step   *)
(***************************************************************************)

\* The logins of SpecContext end when their page does not open. ensure_auth,
\* lines 71 to 73: the caller gets the lock and calls _ensure_context, which returns the context at once if there is one
\* (flow.py, lines 174 and 175) and awaits the launch otherwise (line 183).
AuthLock(c) ==
    /\ calls[c].pc = "acquire"
    /\ lock_free(auth_lock)
    /\ ApplyLogin(c, IF context
                     THEN ensure_auth_locked(Am, calls[c], c, call_force(c), TRUE)
                     ELSE goes([Am EXCEPT !.lock = c], calls[c], "launch"))

\* _ensure_context, lines 183 to 206: launch_persistent_context returns (ok),
\* or it raises, _shutdown_browser runs and ensure_auth returns ERROR.
AuthLaunched(c, ok) ==
    /\ calls[c].pc = "launch"
    /\ ApplyLogin(c, ensure_auth_locked([Am EXCEPT !.lock = "none"], calls[c], c,
                                        call_force(c), ok))

\* get_context (flow.py, line 141) and capture_category_screenshot (line 111):
\* the operation gets the lock and calls _ensure_context.
PageLock(op) ==
    /\ pages[op].pc = "context"
    /\ lock_free(auth_lock)
    /\ pages' = [pages EXCEPT ![op].pc = IF context THEN "open" ELSE "launch"]
    /\ auth_lock' = IF op = "category" \/ ~context THEN op ELSE auth_lock
    /\ UNCHANGED <<storeVars, configVars, context, toggled, last_check, runVars, schedVars,
                   sms_future, sms_prompt, last_auth, sms_input, calls, captcha_future,
                   manual_future, captcha_provider, captcha_key, last_return,
                   watch_rows, toggle_calls>>

\* _ensure_context, lines 183 to 206, in one of these operations: with the
\* context the page is opened (get_context has left the lock), without it
\* the operation returns None.
PageLaunched(op, ok) ==
    /\ pages[op].pc = "launch"
    /\ context' = (context \/ ok)
    /\ pages' = [pages EXCEPT ![op].pc = IF context' THEN "open" ELSE "idle"]
    /\ auth_lock' = IF op = "category" /\ context' THEN op ELSE "none"
    /\ UNCHANGED <<storeVars, configVars, toggled, last_check, runVars, schedVars,
                   sms_future, sms_prompt, last_auth, sms_input, calls, captcha_future,
                   manual_future, captcha_provider, captcha_key, last_return,
                   watch_rows, toggle_calls>>

NextContext ==
    \/ \E c \in Callers : BrowseLoginCall(c)
    \/ \E c \in Callers : AuthLock(c)
    \/ \E c \in Callers, ok \in BOOLEAN : AuthLaunched(c, ok)
    \/ \E c \in Callers, page \in {"timeout", "error"} : LoginOpen(c, page)
    \/ \E op \in PageOps : PageCall(op)
    \/ \E op \in PageOps : PageLock(op)
    \/ \E op \in PageOps, ok \in BOOLEAN : PageLaunched(op, ok)
    \/ \E op \in PageOps : PageClose(op)
    \/ Restart

SpecContext == InitLogin /\ [][NextContext]_vars

\* The calls of _ensure_context that await the launch of the browser.
Launching ==
    {op \in PageOps : pages[op].pc = "launch"}
        \cup {c \in Callers : calls[c].pc = "launch"}

\* C33: no second browser session is opened: at most one launch of the
\* browser context is under way at any time, none is while the AuthManager
\* has a context, and a launch is made by the holder of the lock only,
\* under any interleaving of ensure_auth, get_context, the category
\* screenshot and the portal-error capture.
C33_OneBrowserContext ==
    /\ Cardinality(Launching) <= 1
    /\ Launching # {} => ~context
    /\ \A x \in Launching : auth_lock = x

\* A launch is under way while another call of _ensure_context waits for
\* the lock, after an earlier launch had failed.
C33_Witness ==
    /\ pages["portal_error"].pc = "launch"
    /\ calls["operator"].pc = "acquire"
    /\ last_return.path = "no_context"

\* The check of this step read the page.
ScrapedCheck == last_check'.n = last_check.n + 1 /\ last_check'.scraped = "yes"

C34_Step ==
    ScrapedCheck =>
        \A k \in Cities :
            LET id == WatchId(last_check'.cat, k)
                date == last_check'.updates[k].date_str
            IN /\ date = NULL =>
                      /\ watches'[id].status = "NO_DATE"
                      /\ watches'[id].last_seen_value = watches[id].last_seen_value
                      /\ watches'[id].last_seen_at = watches[id].last_seen_at
               /\ (date = NULL \/ date = watches[id].last_seen_value) =>
                      \A i \in DOMAIN findings' :
                          findings'[i].watch_id = id => i \in DOMAIN findings

\* C34: a check that extracts no date for a watch (its row has none, or the
\* city is missing from the rows) leaves the watch's last seen value and
\* last seen timestamp as they were; so a check that extracts the date the
\* watch saw last, also after checks without a date, creates no finding.
C34_NoDateKeepsLastSeen == [][C34_Step]_vars

\* The watch saw a date, then a check gave no date, and the last check gave
\* the same date again: the watch has the one finding of the first check.
C34_Witness ==
    /\ last_check.scraped = "yes"
    /\ \E k \in Cities :
           LET id == WatchId(last_check.cat, k)
           IN /\ last_check.updates[k].date_str # NULL
              /\ last_check.updates[k].date_str = last_check.before[k]
              /\ \E i \in DOMAIN diagnostics :
                     /\ diagnostics[i].category_code = last_check.cat
                     /\ diagnostics[i].city_key = k
                     /\ diagnostics[i].status = "NO_DATE"
                     /\ diagnostics[i].recorded_at < last_check.at
                     /\ \E j \in DOMAIN findings :
                            /\ findings[j].watch_id = id
                            /\ findings[j].found_at < diagnostics[i].recorded_at
              /\ Cardinality({j \in DOMAIN findings : findings[j].watch_id = id}) = 1

C35_Step ==
    last_check'.n = last_check.n + 1 =>
        \A id \in WatchIds :
            ~watches[id].enabled =>
                /\ watches'[id].status = watches[id].status
                /\ watches'[id].last_seen_value = watches[id].last_seen_value
                /\ \A i \in DOMAIN findings' :
                       findings'[i].watch_id = id => i \in DOMAIN findings

\* C35: a category check changes neither the status nor the last seen value
\* of a watch whose enabled flag is off, and creates no finding for it.
C35_DisabledWatchUntouched == [][C35_Step]_vars

(***************************************************************************)
(* SpecRunFair: the runner's task is scheduled                             *)
(***************************************************************************)

\* A step of the runner's task: it takes a job, enters the lock or goes on
\* with the job it processes.
RunnerProgress ==
    \/ RunnerGet
    \/ RunnerAcquire
    \/ RunBegin
    \/ \E env \in RunAuthEnvs : RunAuth(env)
    \/ \E page \in RunPages : RunPage(page)
    \/ RunNotify
    \/ \E ok \in BOOLEAN : RunSend(ok)
    \/ RunMark
    \/ RunFinish

\* Where the runner's task stands; every step of the task changes it.
runner_at == <<task.pc, run>>

\* The event loop resumes the runner's task whenever its await is over, and
\* every await of a job ends (by its result, its timeout or its exception).
FairRun == WF_runner_at(RunnerProgress)

SpecRunFair == SpecRun /\ FairRun

\* The scheduler runs and a job waits in the queue.
JobWaits == running /\ queue # <<>>

\* C36: while the scheduler is running every job that was enqueued is
\* eventually taken from the queue, whatever the outcome of the jobs before
\* it: the queue of a running scheduler empties.
C36_EveryJobIsTaken == JobWaits ~> ~JobWaits

(***************************************************************************)
(* C37: auth_sms_pending is "1" only while a call of ensure_auth waits for *)
(* the operator's code: once the call has returned (code accepted,         *)
(* timeout, attempts used up, an error while prompting) the flag is "0".   *)
(***************************************************************************)
C37_SmsPendingOnlyWhileWaiting ==
    settings_get(settings, SmsPendingKey) = "1" => WaitsForSms

\* The persisted expiry.
auth_exp == settings_get(settings, AuthExpKey)

\* An expiry is stored and the clock has reached it.
ExpiryPassed == auth_exp # NULL /\ auth_exp # "" /\ fromisoformat(auth_exp) <= clock

\* A call returns from the preflight of line 86 without a login.
ShortCircuit == last_return'.n = last_return.n + 1 /\ last_return'.path = "preflight"

\* What C38 asks of a step: the call that takes the preflight and the return
\* from it leave the expiry as it is, and an unforced call that gets the lock
\* after the expiry passed goes to the login.
C38_Step ==
    /\ ShortCircuit => settings_get(settings', AuthExpKey) = auth_exp
    /\ \A c \in Callers :
           (calls[c].pc = "acquire" /\ calls'[c].pc = "preflight")
               => settings_get(settings', AuthExpKey) = auth_exp
    /\ \A c \in Callers :
           (/\ calls[c].pc = "acquire"
            /\ calls'[c].pc \notin {"acquire", "idle"}
            /\ ~call_force(c)
            /\ ExpiryPassed) => calls'[c].steps = <<"login">>

\* C38: an unforced ensure_auth that ends at a successful preflight leaves
\* the persisted expiry as it was (it is not renewed), and once the expiry
\* has passed the next unforced ensure_auth runs the full login.
C38_ShortCircuitKeepsExpiry == [][C38_Step]_vars

\* The scheduler's call ended at the preflight three hours after the login
\* that set the expiry, and the expiry is still that of the login.
C38_Witness ==
    /\ last_return.caller = "scheduler"
    /\ last_return.path = "preflight"
    /\ clock = TickHours
    /\ auth_exp = isoformat(auth_valid_hours)

\* After the short circuit the expiry passed and the scheduler's next call is
\* at its login, without a preflight.
C38_WitnessLogin ==
    /\ last_return.path = "preflight"
    /\ ExpiryPassed
    /\ calls["scheduler"].steps = <<"login">>

\* A snapshot is stored for the category.
HasSnapshot(s, c) == settings_get(s, SnapshotKey(c)) # NULL

\* No enabled category has a snapshot.
NoSnapshotWhileEnabled ==
    \A c \in Categories : categories[c].enabled => ~HasSnapshot(settings, c)

\* A snapshot appears only in a step that leaves its category disabled and its
\* watches off (a disable), and it goes only in a step that leaves the category
\* enabled (an enable) or all its watches on (resume-all).
C39_Step ==
    \A c \in Categories :
        /\ (~HasSnapshot(settings, c) /\ HasSnapshot(settings', c))
               => (~categories'[c].enabled /\ EnabledSet(watches', c) = {})
        /\ (HasSnapshot(settings, c) /\ ~HasSnapshot(settings', c))
               => \/ categories'[c].enabled
                  \/ EnabledSet(watches', c) = {id \in WatchIds : watches[id].category_key = c}

NoLoginUnderWay == \A c \in Callers : calls[c].pc = "idle"

\* A wait for the operator is left open: a future without its result.
WaitOutstanding ==
    \/ manual_future.state = "pending"
    \/ captcha_future.state = "pending"
    \/ sms_future.state = "pending"

(***************************************************************************)
(* C40: whenever ensure_auth has returned no wait for the operator is left *)
(* outstanding (the manual-help, captcha and SMS futures are cleared or    *)
(* resolved), so that a later "done" or "cancel" of the operator is not    *)
(* consumed: try_handle_owner_message returns False.                       *)
(***************************************************************************)
C40_NoWaitLeftAfterReturn ==
    NoLoginUnderWay =>
        /\ ~WaitOutstanding
        /\ \A text \in DoneWords \cup CancelWords :
               ~owner_message_handled(manual_future, sms_future, text).handled

====
